---- MODULE Spec2Model ----
(***************************************************************************)
(* License validation and offline activation of ProjetoRatoengine.         *)
(*                                                                         *)
(* The state is the SQLite store (tables licenses and activation_logs),    *)
(* the wall clock and the last HTTP response.  One action per route of     *)
(* routes/licenses.js; each action runs the whole handler, including the   *)
(* service function of services/license.js it calls.  better-sqlite3 is    *)
(* synchronous and node runs one handler at a time, so a handler is one    *)
(* atomic step.  Every SQL statement of a handler may throw (the source    *)
(* itself catches such failures at license.js:77 and license.js:125); the  *)
(* statement that throws is an input of the action.                        *)
(*                                                                         *)
(* Time is counted in calendar months.  Strings the code inspects by       *)
(* character (keys, machine ids) are sequences of one-character strings.   *)
(***************************************************************************)
EXTENDS Integers, Sequences, FiniteSets, TLC

VARIABLES licenses, logs, now, res, revoked, requests, failures, inflight

vars == <<licenses, logs, now, res, revoked, requests, failures, inflight>>

(***************************************************************************)
(* Bounds of the model.                                                    *)
(***************************************************************************)
MaxLicenses == 2
MaxRequests == 3
MaxFailures == 1
MaxTime == 1

(***************************************************************************)
(* Values.                                                                 *)
(***************************************************************************)
Null == <<>>
Some(v) == <<v>>

RATO_ == <<"R", "A", "T", "O", "-">>

chars == <<"A", "B", "C", "D", "E", "F", "G", "H", "I", "J", "K", "L", "M",
           "N", "O", "P", "Q", "R", "S", "T", "U", "V", "W", "X", "Y", "Z",
           "0", "1", "2", "3", "4", "5", "6", "7", "8", "9">>

startsWith(s, prefix) ==
    /\ Len(s) >= Len(prefix)
    /\ SubSeq(s, 1, Len(prefix)) = prefix

\* Date.prototype.toISOString and new Date(text): a date is kept as text in
\* the store and parsed back wherever it is compared.
toISOString(t) == [iso |-> t]
NewDate(text) == text.iso

\* A text that new Date cannot parse gives an Invalid Date, whose time value
\* is NaN: every comparison with it is false.
isValidDate(text) == "iso" \in DOMAIN text

\* new Date(text) < new Date(), the clock reading t
dateBefore(text, t) == isValidDate(text) /\ NewDate(text) < t

(***************************************************************************)
(* JSON text of an array of strings: the text is its sequence of tokens.   *)
(***************************************************************************)
LBracket == [t |-> "[", v |-> <<>>]
RBracket == [t |-> "]", v |-> <<>>]
Comma == [t |-> ",", v |-> <<>>]
StrTok(s) == [t |-> "str", v |-> s]

RECURSIVE JSONitems(_)
JSONitems(arr) ==
    IF arr = <<>> THEN <<>>
    ELSE IF Len(arr) = 1 THEN <<StrTok(arr[1])>>
    ELSE <<StrTok(arr[1]), Comma>> \o JSONitems(Tail(arr))

JSONstringify(arr) == <<LBracket>> \o JSONitems(arr) \o <<RBracket>>

JSONwellFormed(text) ==
    /\ Len(text) >= 2
    /\ text[1] = LBracket
    /\ text[Len(text)] = RBracket
    /\ \/ Len(text) = 2
       \/ /\ Len(text) % 2 = 1
          /\ \A i \in 2..(Len(text) - 1) :
                IF i % 2 = 0 THEN text[i].t = "str" ELSE text[i] = Comma

\* JSON.parse of a well-formed text; the caller catches the SyntaxError of
\* any other text.
JSONparse(text) ==
    [i \in 1..((Len(text) - 1) \div 2) |-> text[2 * i].v]

includes(arr, x) == \E i \in 1..Len(arr) : arr[i] = x

(***************************************************************************)
(* crypto.js: key generation.  rnd[n] is the value of                      *)
(* Math.floor(Math.random() * chars.length) at the n-th draw.              *)
(***************************************************************************)
RECURSIVE keyGroup(_, _, _)
keyGroup(rnd, i, j) ==
    IF j = 4 THEN <<>>
    ELSE <<chars[rnd[4 * i + j + 1] + 1]>> \o keyGroup(rnd, i, j + 1)

RECURSIVE keyGroups(_, _)
keyGroups(rnd, i) ==
    IF i = 4 THEN <<>>
    ELSE <<"-">> \o keyGroup(rnd, i, 0) \o keyGroups(rnd, i + 1)

\* A variant of generateLicenseKey that emits one group fewer.
generateLicenseKeyShort(rnd) == <<"R", "A", "T", "O">> \o keyGroups(rnd, 1)

generateLicenseKey(rnd) == <<"R", "A", "T", "O">> \o keyGroups(rnd, 0)

\* The draws of the random source that the model explores.
RandomDraws == {[n \in 1..16 |-> 0], [n \in 1..16 |-> IF n % 2 = 0 THEN 35 ELSE 7]}

(***************************************************************************)
(* license.js: calculateExpiration, in months after t.                     *)
(***************************************************************************)
\* A variant of calculateExpiration that gives every plan one month.
calculateExpirationOneMonth(plan, t) == toISOString(t + 1)

calculateExpiration(plan, t) ==
    toISOString(
        CASE plan = "monthly" -> t + 1
          [] plan = "annual" -> t + 12
          [] plan = "lifetime" -> t + 12 * 100
          [] OTHER -> t + 1)

(***************************************************************************)
(* The store.  licenses[i] is the row with id i (AUTOINCREMENT, and no     *)
(* statement deletes a row); logs is the activation_logs table.            *)
(***************************************************************************)
NoRow == [id |-> 0]

getByKey(table, key) ==
    IF \E i \in 1..Len(table) : table[i].key = key
    THEN table[CHOOSE i \in 1..Len(table) : table[i].key = key]
    ELSE NoRow

getLicenseById(table, id) ==
    IF id \in 1..Len(table) THEN table[id] ELSE NoRow

\* INSERT INTO licenses: the columns the statement does not name take the
\* defaults of the schema.  created_at, which no statement of the license
\* service reads back into a decision, is left out of both tables.
insertLicense(table, key, email, plan, maxMachines, expiresAt, t) ==
    Append(table,
           [id |-> Len(table) + 1,
            key |-> key,
            email |-> email,
            plan |-> plan,
            max_machines |-> maxMachines,
            machines_used |-> <<LBracket, RBracket>>,
            status |-> "active",
            expires_at |-> expiresAt,
            last_validated |-> Null])

\* A variant of logActivation that keeps one entry, the latest.
logActivationOverwrite(table, licenseId, machineId, action, t) ==
    <<[id |-> 1,
       license_id |-> licenseId,
       machine_id |-> machineId,
       action |-> action,
       ip_address |-> Null]>>

logActivation(table, licenseId, machineId, action, t) ==
    Append(table,
           [id |-> Len(table) + 1,
            license_id |-> licenseId,
            machine_id |-> machineId,
            action |-> action,
            ip_address |-> Null])

getActivationLogs(table, licenseId) ==
    SelectSeq(table, LAMBDA e : e.license_id = licenseId)

(***************************************************************************)
(* crypto.js: createOfflineToken, the payload that is encrypted.           *)
(***************************************************************************)
createOfflineToken(license, machineId, t) ==
    [key |-> license.key,
     machineId |-> machineId,
     expiresAt |-> license.expires_at,
     plan |-> license.plan,
     createdAt |-> toISOString(t)]

(***************************************************************************)
(* license.js: validateLicense, statement by statement.  A run is a record *)
(* s: the two tables, the SQL statements executed so far, the locals       *)
(* license and machines, and, once the function has returned or thrown,    *)
(* done and ret.  fault names the statement that throws, "none" for none.  *)
(***************************************************************************)
Returned(s, value) ==
    [s EXCEPT !.done = TRUE, !.ret = [kind |-> "return", value |-> value]]

Thrown(s, stmt) ==
    [s EXCEPT !.stmts = Append(@, stmt), !.done = TRUE, !.ret = [kind |-> "throw"]]

Invalid(reason) == [valid |-> FALSE, reason |-> reason]

vlStart(table, logtable) ==
    [licenses |-> table, logs |-> logtable, stmts |-> <<>>,
     license |-> NoRow, machines |-> <<>>,
     done |-> FALSE, ret |-> [kind |-> "running"]]

\* license.js:60
vlSelect(s, key, fault) ==
    IF fault = "select" THEN Thrown(s, "select")
    ELSE [s EXCEPT !.stmts = Append(@, "select"),
                   !.license = getByKey(s.licenses, key)]

\* license.js:62-84
vlAutoCreate(s, key, fault, t) ==
    IF s.done \/ s.license.id # 0 THEN s
    ELSE IF key # <<>> /\ startsWith(key, RATO_)
    THEN IF fault = "insert"
         THEN Returned([s EXCEPT !.stmts = Append(@, "insert")],
                       Invalid("Database error during auto-activation"))
         ELSE LET inserted == insertLicense(s.licenses, key,
                                            Some("bypass@ratoengine.com"),
                                            "lifetime", 999,
                                            calculateExpiration("lifetime", t), t)
                  s1 == [s EXCEPT !.stmts = Append(@, "insert"),
                                  !.licenses = inserted]
              IN  IF fault = "reselect"
                  THEN Returned([s1 EXCEPT !.stmts = Append(@, "reselect")],
                                Invalid("Database error during auto-activation"))
                  ELSE [s1 EXCEPT !.stmts = Append(@, "reselect"),
                                  !.license = getByKey(inserted, key)]
    ELSE Returned(s, Invalid("Chave invalida (deve comecar com RATO-)"))
    \* (the source's text carries the accents of "inválida" and "começar")

\* license.js:86-88
vlNotFound(s) ==
    IF s.done \/ s.license.id # 0 THEN s
    ELSE Returned(s, Invalid("License key not found"))

\* license.js:90-94
vlForceActive(s, fault) ==
    IF s.done \/ s.license.status = "active" THEN s
    ELSE IF fault = "setActive" THEN Thrown(s, "setActive")
    ELSE [s EXCEPT !.stmts = Append(@, "setActive"),
                   !.licenses[s.license.id].status = "active",
                   !.license.status = "active"]

\* license.js:96-101
vlExtendExpiry(s, fault, t) ==
    IF s.done \/ ~dateBefore(s.license.expires_at, t) THEN s
    ELSE IF fault = "setExpiry" THEN Thrown(s, "setExpiry")
    ELSE LET newExpiry == calculateExpiration("lifetime", t)
         IN  [s EXCEPT !.stmts = Append(@, "setExpiry"),
                       !.licenses[s.license.id].expires_at = newExpiry,
                       !.licenses[s.license.id].status = "active",
                       !.license.expires_at = newExpiry]

\* license.js:104-109: JSON.parse(license.machines_used || '[]'), and [] when
\* the parse throws.
parseMachines(machines_used) ==
    LET text == IF machines_used = Null THEN <<LBracket, RBracket>>
                ELSE machines_used
    IN  IF JSONwellFormed(text) THEN JSONparse(text) ELSE <<>>

\* license.js:103-109
vlParseMachines(s) ==
    IF s.done THEN s
    ELSE [s EXCEPT !.machines = parseMachines(s.license.machines_used)]

\* A variant of vlBindMachine that pushes the machine without looking it up.
vlBindMachineUnchecked(s, machineId, fault) ==
    IF s.done THEN s
    ELSE LET pushed == Append(s.machines, machineId)
         IN  IF fault = "setMachines"
             THEN Thrown([s EXCEPT !.machines = pushed], "setMachines")
             ELSE [s EXCEPT !.machines = pushed,
                            !.stmts = Append(@, "setMachines"),
                            !.licenses[s.license.id].machines_used =
                                JSONstringify(pushed)]

\* license.js:111-116
vlBindMachine(s, machineId, fault) ==
    IF s.done \/ includes(s.machines, machineId) THEN s
    ELSE LET pushed == Append(s.machines, machineId)
         IN  IF fault = "setMachines"
             THEN Thrown([s EXCEPT !.machines = pushed], "setMachines")
             ELSE [s EXCEPT !.machines = pushed,
                            !.stmts = Append(@, "setMachines"),
                            !.licenses[s.license.id].machines_used =
                                JSONstringify(pushed)]

\* license.js:118-120
vlLastValidated(s, fault, t) ==
    IF s.done THEN s
    ELSE IF fault = "setLastValidated" THEN Thrown(s, "setLastValidated")
    ELSE [s EXCEPT !.stmts = Append(@, "setLastValidated"),
                   !.licenses[s.license.id].last_validated =
                       Some(toISOString(t))]

\* license.js:122-125
vlLog(s, machineId, fault, t) ==
    IF s.done THEN s
    ELSE IF fault = "logInsert" THEN [s EXCEPT !.stmts = Append(@, "logInsert")]
    ELSE [s EXCEPT !.stmts = Append(@, "logInsert"),
                   !.logs = logActivation(s.logs, s.license.id, machineId,
                                          "validate", t)]

\* A variant of the return statement that counts the machines the license
\* had when it was selected.
vlReturnStale(s, machineId, t) ==
    IF s.done THEN s
    ELSE Returned(s,
            [valid |-> TRUE,
             license |-> [key |-> s.license.key,
                          plan |-> s.license.plan,
                          expiresAt |-> s.license.expires_at,
                          machinesUsed |->
                              Len(parseMachines(s.license.machines_used)),
                          maxMachines |-> s.license.max_machines],
             offlineToken |-> createOfflineToken(s.license, machineId, t)])

\* license.js:127-141
vlReturn(s, machineId, t) ==
    IF s.done THEN s
    ELSE Returned(s,
            [valid |-> TRUE,
             license |-> [key |-> s.license.key,
                          plan |-> s.license.plan,
                          expiresAt |-> s.license.expires_at,
                          machinesUsed |-> Len(s.machines),
                          maxMachines |-> s.license.max_machines],
             offlineToken |-> createOfflineToken(s.license, machineId, t)])

validateLicense(table, logtable, key, machineId, fault, t) ==
    LET s1 == vlSelect(vlStart(table, logtable), key, fault)
        s2 == vlAutoCreate(s1, key, fault, t)
        s3 == vlNotFound(s2)
        s4 == vlForceActive(s3, fault)
        s5 == vlExtendExpiry(s4, fault, t)
        s6 == vlParseMachines(s5)
        s7 == vlBindMachine(s6, machineId, fault)
        s8 == vlLastValidated(s7, fault, t)
        s9 == vlLog(s8, machineId, fault, t)
    IN  vlReturn(s9, machineId, t)

(***************************************************************************)
(* license.js: createLicense, updateLicense, revokeLicense, resetMachines. *)
(* A result is [licenses, ret, stmts]; of a request body, a field that is  *)
(* undefined is Null and a supplied value v is Some(v).                    *)
(***************************************************************************)
OrElse(opt, default) == IF opt = Null THEN default ELSE opt[1]

\* maxMachines || 1: 0 is falsy
OrOne(opt) == IF opt = Null \/ opt = Some(0) THEN 1 ELSE opt[1]

\* A variant of createLicense on a table whose key column is not UNIQUE.
createLicenseUnchecked(table, data, rnd, fault, t) ==
    LET key == generateLicenseKey(rnd)
        expiresAt == calculateExpiration(OrElse(data.plan, "undefined"), t)
    IN  IF fault = "insert"
        THEN [licenses |-> table, ret |-> [kind |-> "throw"], stmts |-> <<"insert">>]
        ELSE [licenses |-> insertLicense(table, key, data.email,
                                         OrElse(data.plan, "undefined"),
                                         OrOne(data.maxMachines), expiresAt, t),
              ret |-> [kind |-> "return",
                       value |-> [id |-> Len(table) + 1,
                                  key |-> key,
                                  email |-> data.email,
                                  plan |-> OrElse(data.plan, "undefined"),
                                  maxMachines |-> OrOne(data.maxMachines),
                                  expiresAt |-> expiresAt]],
              stmts |-> <<"insert">>]

createLicense(table, data, rnd, fault, t) ==
    LET key == generateLicenseKey(rnd)
        expiresAt == calculateExpiration(OrElse(data.plan, "undefined"), t)
    IN  IF fault = "insert" \/ getByKey(table, key).id # 0
        THEN [licenses |-> table, ret |-> [kind |-> "throw"], stmts |-> <<"insert">>]
        ELSE [licenses |-> insertLicense(table, key, data.email,
                                         OrElse(data.plan, "undefined"),
                                         OrOne(data.maxMachines), expiresAt, t),
              ret |-> [kind |-> "return",
                       value |-> [id |-> Len(table) + 1,
                                  key |-> key,
                                  email |-> data.email,
                                  plan |-> OrElse(data.plan, "undefined"),
                                  maxMachines |-> OrOne(data.maxMachines),
                                  expiresAt |-> expiresAt]],
              stmts |-> <<"insert">>]

\* A variant of the SET clause that also clears last_validated.
updatedRowClearing(row, data) ==
    [row EXCEPT !.email = IF data.email = Null THEN @ ELSE data.email,
                !.plan = OrElse(data.plan, @),
                !.max_machines = OrElse(data.maxMachines, @),
                !.status = OrElse(data.status, @),
                !.expires_at = OrElse(data.expiresAt, @),
                !.last_validated = Null]

\* The row with the columns named by the supplied fields overwritten.
updatedRow(row, data) ==
    [row EXCEPT !.email = IF data.email = Null THEN @ ELSE data.email,
                !.plan = OrElse(data.plan, @),
                !.max_machines = OrElse(data.maxMachines, @),
                !.status = OrElse(data.status, @),
                !.expires_at = OrElse(data.expiresAt, @)]

noUpdates(data) ==
    /\ data.email = Null
    /\ data.plan = Null
    /\ data.maxMachines = Null
    /\ data.status = Null
    /\ data.expiresAt = Null

updateLicense(table, id, data, fault) ==
    LET updated == IF noUpdates(data) \/ id \notin 1..Len(table) THEN table
                   ELSE [table EXCEPT ![id] = updatedRow(@, data)]
        head == IF noUpdates(data) THEN <<>> ELSE <<"update">>
    IN  IF ~noUpdates(data) /\ fault = "update"
        THEN [licenses |-> table, ret |-> [kind |-> "throw"], stmts |-> <<"update">>]
        ELSE IF fault = "select"
        THEN [licenses |-> updated, ret |-> [kind |-> "throw"],
              stmts |-> head \o <<"select">>]
        ELSE [licenses |-> updated,
              ret |-> [kind |-> "return", value |-> getLicenseById(updated, id)],
              stmts |-> head \o <<"select">>]

revokeLicense(table, id) ==
    IF id \in 1..Len(table)
    THEN [table EXCEPT ![id].status = "revoked"]
    ELSE table

\* A variant of resetMachines that also reactivates the license.
resetMachinesAndActivate(table, id) ==
    IF id \in 1..Len(table)
    THEN [table EXCEPT ![id].machines_used = <<LBracket, RBracket>>,
                       ![id].status = "active"]
    ELSE table

resetMachines(table, id) ==
    IF id \in 1..Len(table)
    THEN [table EXCEPT ![id].machines_used = <<LBracket, RBracket>>]
    ELSE table

(***************************************************************************)
(* middleware/auth.js: authMiddleware.  session is what the request        *)
(* carries: no token, a token jwt.verify rejects, or a token it accepts.   *)
(***************************************************************************)
Sessions == {"none", "invalid", "valid"}

\* A variant of authMiddleware that lets a request without a token through.
authMiddlewareOpen(session) ==
    CASE session = "invalid" -> [next |-> FALSE, status |-> 401,
                                 error |-> "Invalid or expired token"]
      [] OTHER -> [next |-> TRUE, status |-> 0, error |-> ""]

authMiddleware(session) ==
    CASE session = "none" -> [next |-> FALSE, status |-> 401,
                              error |-> "Authentication required"]
      [] session = "invalid" -> [next |-> FALSE, status |-> 401,
                                 error |-> "Invalid or expired token"]
      [] OTHER -> [next |-> TRUE, status |-> 0, error |-> ""]

(***************************************************************************)
(* The inputs of the requests.                                             *)
(***************************************************************************)
GeneratedKeys == {generateLicenseKey(rnd) : rnd \in RandomDraws}

Keys == GeneratedKeys \cup {<<"R", "A", "T", "O", "-", "X">>, <<"B", "A", "D">>, <<>>}

MachineIds == {<<"m", "1">>, <<"m", "2">>, <<>>}

Range(seq) == {seq[i] : i \in 1..Len(seq)}

\* A statement that is not executed cannot throw: the faults of a request
\* are the statements its fault-free run executes.
ValidateFaults(table, logtable, key, machineId, t) ==
    {"none"} \cup Range(validateLicense(table, logtable, key, machineId, "none", t).stmts)

Ids(table) == 1..(Len(table) + 1)

NoBody == [email |-> Null, plan |-> Null, maxMachines |-> Null]

\* The body is read only once authMiddleware has let the request through.
CreateBodies(session) ==
    IF session # "valid" THEN {NoBody}
    ELSE {NoBody,
          [NoBody EXCEPT !.plan = Some("weekly")],
          [NoBody EXCEPT !.plan = Some("monthly")],
          [NoBody EXCEPT !.plan = Some("annual"), !.email = Some("a@b.c")],
          [NoBody EXCEPT !.plan = Some("lifetime"), !.maxMachines = Some(2)]}

NoData == [email |-> Null, plan |-> Null, maxMachines |-> Null, status |-> Null,
           expiresAt |-> Null]

UpdateDatas(session) ==
    IF session # "valid" THEN {NoData}
    ELSE {NoData,
          [NoData EXCEPT !.email = Some("a@b.c")],
          [NoData EXCEPT !.plan = Some("annual")],
          [NoData EXCEPT !.maxMachines = Some(1)],
          [NoData EXCEPT !.status = Some("active")],
          [NoData EXCEPT !.status = Some("expired")],
          [NoData EXCEPT !.status = Some("revoked")],
          [NoData EXCEPT !.expiresAt = Some(toISOString(0))],
          [NoData EXCEPT !.maxMachines = Some(1), !.status = Some("active")]}

(***************************************************************************)
(* The state machine.  res is the response of the last request: the route  *)
(* (op), the request's key, machineId and id where it has them, the HTTP   *)
(* status, the JSON body and the SQL statements the handler executed.      *)
(* revoked is a history variable: the ids revokeLicense has run for.       *)
(***************************************************************************)
\* The clients whose validate requests are in flight, and a client that has
\* not sent one: pc is the position of its request, license and machines are
\* the handler's locals while it runs, ret is the response body.
NumClients == 2

Clients == 1..NumClients

IdleClient ==
    [pc |-> "idle", key |-> <<>>, machineId |-> <<>>,
     license |-> NoRow, machines |-> <<>>, ret |-> Invalid(""),
     token |-> <<>>, verifiedAt |-> 0,
     offline |-> [kind |-> "none", value |-> Invalid("")]]

Response(op, key, machineId, id, status, body, stmts) ==
    [op |-> op, key |-> key, machineId |-> machineId, id |-> id,
     status |-> status, body |-> body, stmts |-> stmts]

ErrorBody(text) == [error |-> text]

Init ==
    /\ licenses = <<>>
    /\ logs = <<>>
    /\ now = 0
    /\ res = Response("none", <<>>, <<>>, 0, 0, ErrorBody(""), <<>>)
    /\ revoked = {}
    /\ requests = 0
    /\ failures = 0
    /\ inflight = [c \in Clients |-> IdleClient]

\* The clock advances between requests.
Tick ==
    /\ now < MaxTime
    /\ now' = now + 1
    /\ UNCHANGED <<licenses, logs, res, revoked, requests, failures, inflight>>

\* routes/licenses.js:14-26
PostValidate(key, machineId, fault) ==
    IF key = <<>> \/ machineId = <<>>
    THEN /\ res' = Response("validate", key, machineId, 0, 400,
                            Invalid("Key and machine ID are required"), <<>>)
         /\ UNCHANGED <<licenses, logs, now, revoked>>
    ELSE LET r == validateLicense(licenses, logs, key, machineId, fault, now)
         IN  /\ Len(r.licenses) <= MaxLicenses
             /\ licenses' = r.licenses
             /\ logs' = r.logs
             /\ res' = IF r.ret.kind = "throw"
                       THEN Response("validate", key, machineId, 0, 500,
                                     ErrorBody("Internal Server Error"), r.stmts)
                       ELSE Response("validate", key, machineId, 0, 200,
                                     r.ret.value, r.stmts)
             /\ UNCHANGED <<now, revoked>>

Unauthorized(op, id, auth) ==
    /\ res' = Response(op, <<>>, <<>>, 0, auth.status, ErrorBody(auth.error), <<>>)
    /\ UNCHANGED <<licenses, logs, now, revoked>>

\* routes/licenses.js:73-86
PostCreate(session, body, rnd, fault) ==
    LET auth == authMiddleware(session)
    IN  IF ~auth.next THEN Unauthorized("create", 0, auth)
        ELSE IF body.plan = Null
        THEN /\ res' = Response("create", <<>>, <<>>, 0, 400,
                                ErrorBody("Plan is required"), <<>>)
             /\ UNCHANGED <<licenses, logs, now, revoked>>
        ELSE IF body.plan[1] \notin {"monthly", "annual", "lifetime"}
        THEN /\ res' = Response("create", <<>>, <<>>, 0, 400,
                                ErrorBody("Invalid plan type"), <<>>)
             /\ UNCHANGED <<licenses, logs, now, revoked>>
        ELSE LET r == createLicense(licenses, body, rnd, fault, now)
             IN  /\ Len(r.licenses) <= MaxLicenses
                 /\ licenses' = r.licenses
                 /\ res' = IF r.ret.kind = "throw"
                           THEN Response("create", <<>>, <<>>, 0, 500,
                                         ErrorBody("Internal Server Error"), r.stmts)
                           ELSE Response("create", r.ret.value.key, <<>>,
                                         r.ret.value.id, 201,
                                         [license |-> r.ret.value], r.stmts)
                 /\ UNCHANGED <<logs, now, revoked>>

\* routes/licenses.js:92-100
PutUpdate(session, id, data, fault) ==
    LET auth == authMiddleware(session)
    IN  IF ~auth.next THEN Unauthorized("update", id, auth)
        ELSE LET r == updateLicense(licenses, id, data, fault)
             IN  /\ licenses' = r.licenses
                 /\ res' = IF r.ret.kind = "throw"
                           THEN Response("update", <<>>, <<>>, id, 500,
                                         ErrorBody("Internal Server Error"), r.stmts)
                           ELSE IF r.ret.value.id = 0
                           THEN Response("update", <<>>, <<>>, id, 404,
                                         ErrorBody("License not found"), r.stmts)
                           ELSE Response("update", <<>>, <<>>, id, 200,
                                         [license |-> r.ret.value], r.stmts)
                 /\ UNCHANGED <<logs, now, revoked>>

\* routes/licenses.js:106-115
DeleteRevoke(session, id, fault) ==
    LET auth == authMiddleware(session)
    IN  IF ~auth.next THEN Unauthorized("revoke", id, auth)
        ELSE IF fault = "select"
        THEN /\ res' = Response("revoke", <<>>, <<>>, id, 500,
                                ErrorBody("Internal Server Error"), <<"select">>)
             /\ UNCHANGED <<licenses, logs, now, revoked>>
        ELSE IF getLicenseById(licenses, id).id = 0
        THEN /\ res' = Response("revoke", <<>>, <<>>, id, 404,
                                ErrorBody("License not found"), <<"select">>)
             /\ UNCHANGED <<licenses, logs, now, revoked>>
        ELSE IF fault = "update"
        THEN /\ res' = Response("revoke", <<>>, <<>>, id, 500,
                                ErrorBody("Internal Server Error"),
                                <<"select", "update">>)
             /\ UNCHANGED <<licenses, logs, now, revoked>>
        ELSE /\ licenses' = revokeLicense(licenses, id)
             /\ revoked' = revoked \cup {id}
             /\ res' = Response("revoke", <<>>, <<>>, id, 200,
                                [success |-> TRUE, message |-> "License revoked"],
                                <<"select", "update">>)
             /\ UNCHANGED <<logs, now>>

\* routes/licenses.js:121-130
PostResetMachines(session, id, fault) ==
    LET auth == authMiddleware(session)
    IN  IF ~auth.next THEN Unauthorized("reset", id, auth)
        ELSE IF fault = "select"
        THEN /\ res' = Response("reset", <<>>, <<>>, id, 500,
                                ErrorBody("Internal Server Error"), <<"select">>)
             /\ UNCHANGED <<licenses, logs, now, revoked>>
        ELSE IF getLicenseById(licenses, id).id = 0
        THEN /\ res' = Response("reset", <<>>, <<>>, id, 404,
                                ErrorBody("License not found"), <<"select">>)
             /\ UNCHANGED <<licenses, logs, now, revoked>>
        ELSE IF fault = "update"
        THEN /\ res' = Response("reset", <<>>, <<>>, id, 500,
                                ErrorBody("Internal Server Error"),
                                <<"select", "update">>)
             /\ UNCHANGED <<licenses, logs, now, revoked>>
        ELSE /\ licenses' = resetMachines(licenses, id)
             /\ res' = Response("reset", <<>>, <<>>, id, 200,
                                [success |-> TRUE,
                                 message |-> "Machine bindings reset"],
                                <<"select", "update">>)
             /\ UNCHANGED <<logs, now, revoked>>

\* One more request has been served; failed tells whether one of its SQL
\* statements threw.
Served(failed) ==
    /\ requests < MaxRequests
    /\ requests' = requests + 1
    /\ failed => failures < MaxFailures
    /\ failures' = IF failed THEN failures + 1 ELSE failures
    /\ UNCHANGED inflight

Faults(set) == IF failures < MaxFailures THEN set ELSE {"none"}

Next ==
    \/ Tick
    \/ \E key \in Keys, machineId \in MachineIds :
          \E fault \in Faults(ValidateFaults(licenses, logs, key, machineId, now)) :
             /\ Served(fault # "none")
             /\ PostValidate(key, machineId, fault)
    \/ \E session \in Sessions, rnd \in RandomDraws :
          \E body \in CreateBodies(session), fault \in Faults({"none", "insert"}) :
             /\ Served(fault # "none")
             /\ PostCreate(session, body, rnd, fault)
    \/ \E session \in Sessions, id \in Ids(licenses) :
          \E data \in UpdateDatas(session), fault \in Faults({"none", "update"}) :
             /\ Served(fault # "none")
             /\ PutUpdate(session, id, data, fault)
    \/ \E session \in Sessions, id \in Ids(licenses) :
          \E fault \in Faults({"none", "update"}) :
             /\ Served(fault # "none")
             /\ DeleteRevoke(session, id, fault)
    \/ \E session \in Sessions, id \in Ids(licenses) :
          \E fault \in Faults({"none", "update"}) :
             /\ Served(fault # "none")
             /\ PostResetMachines(session, id, fault)

Spec == Init /\ [][Next]_vars

\* The behaviours in which no SQL statement throws.
NextReliable == Next /\ failures' = failures

SpecReliable == Init /\ [][NextReliable]_vars

(***************************************************************************)
(* Properties.                                                             *)
(***************************************************************************)
machinesUsed(row) == parseMachines(row.machines_used)

isExpired(row) == dateBefore(row.expires_at, now)

\* The key format of the data model: RATO-XXXX-XXXX-XXXX-XXXX.
matchesKeyFormat(key) ==
    /\ Len(key) = 24
    /\ SubSeq(key, 1, 4) = <<"R", "A", "T", "O">>
    /\ \A i \in 5..24 :
          IF i % 5 = 0 THEN key[i] = "-" ELSE key[i] \in Range(chars)

AllValidateFaults ==
    {"none", "select", "insert", "reselect", "setActive", "setExpiry",
     "setMachines", "setLastValidated", "logInsert"}

\* C1: every stored license has at most maxMachines bound machines.
C1_CapacityInvariant ==
    \A i \in 1..Len(licenses) :
        Len(machinesUsed(licenses[i])) <= licenses[i].max_machines

\* C2: validate on an active, unexpired license that already holds
\* maxMachines machines refuses a machine that is not bound, with reason
\* "machine limit exceeded" and machinesUsed unchanged, and accepts a bound
\* machine without growing the set.
C2_MachineLimitEnforced ==
    [][\A key \in Keys, m \in MachineIds :
          LET row == getByKey(licenses, key)
          IN  ( /\ row.id # 0
                /\ m # <<>>
                /\ row.status = "active"
                /\ ~isExpired(row)
                /\ Len(machinesUsed(row)) = row.max_machines
                /\ PostValidate(key, m, "none") )
              => /\ licenses'[row.id].machines_used = row.machines_used
                 /\ IF includes(machinesUsed(row), m)
                    THEN res'.body.valid
                    ELSE /\ ~res'.body.valid
                         /\ res'.body.reason = "machine limit exceeded"]_vars

\* C3: once revokeLicense has run for a license, every validate for its key
\* returns valid:false with reason "revoked".
C3_RevokedStaysRefused ==
    [][\A key \in Keys, m \in MachineIds :
          ( /\ getByKey(licenses, key).id \in revoked
            /\ m # <<>>
            /\ PostValidate(key, m, "none") )
          => /\ ~res'.body.valid
             /\ res'.body.reason = "revoked"]_vars

\* C4: a license whose status is revoked keeps that status in every step.
C4_RevokedIsTerminal ==
    [][\A i \in 1..Len(licenses) :
          licenses[i].status = "revoked" => licenses'[i].status = "revoked"]_vars

\* C5: validate for a key that has no license returns valid:false and leaves
\* the licenses and the activation log as they were.
C5_UnknownKeyCreatesNothing ==
    [][\A key \in Keys, m \in MachineIds :
          ( /\ getByKey(licenses, key).id = 0
            /\ PostValidate(key, m, "none") )
          => /\ ~res'.body.valid
             /\ licenses' = licenses
             /\ logs' = logs]_vars

\* C6: validate on a license whose status is expired or revoked returns
\* valid:false with that status as the reason, and changes neither the
\* status, nor expiresAt, nor machinesUsed.
C6_InactiveNeverResurrected ==
    [][\A key \in Keys, m \in MachineIds :
          LET row == getByKey(licenses, key)
          IN  ( /\ row.id # 0
                /\ m # <<>>
                /\ row.status \in {"expired", "revoked"}
                /\ PostValidate(key, m, "none") )
              => /\ ~res'.body.valid
                 /\ res'.body.reason = row.status
                 /\ licenses'[row.id].status = row.status
                 /\ licenses'[row.id].expires_at = row.expires_at
                 /\ licenses'[row.id].machines_used = row.machines_used]_vars

\* C7: validate on an active license whose expiresAt is earlier than now
\* stores status expired, returns valid:false without an offline token, and
\* leaves expiresAt unchanged.
C7_LazyExpiration ==
    [][\A key \in Keys, m \in MachineIds :
          LET row == getByKey(licenses, key)
          IN  ( /\ row.id # 0
                /\ m # <<>>
                /\ row.status = "active"
                /\ isExpired(row)
                /\ PostValidate(key, m, "none") )
              => /\ ~res'.body.valid
                 /\ "offlineToken" \notin DOMAIN res'.body
                 /\ licenses'[row.id].status = "expired"
                 /\ licenses'[row.id].expires_at = row.expires_at]_vars

\* C8: no license's machinesUsed holds the same machine identifier twice.
C8_NoDuplicateMachine ==
    \A i \in 1..Len(licenses) :
        LET ms == machinesUsed(licenses[i])
        IN  \A a, b \in 1..Len(ms) : a # b => ms[a] # ms[b]

\* C8 witness: the same (license, machine) has been validated twice, and the
\* machine is bound to the license.
C8_Witness ==
    \E a, b \in 1..Len(logs) :
        /\ a < b
        /\ logs[a].action = "validate"
        /\ logs[b].action = "validate"
        /\ logs[a].license_id = logs[b].license_id
        /\ logs[a].machine_id = logs[b].machine_id
        /\ includes(machinesUsed(licenses[logs[a].license_id]), logs[a].machine_id)

\* C9: a validate request with a malformed key or an empty machineId is
\* answered 400, valid:false, without any SQL statement having been executed.
C9_MalformedRejectedBeforeStorage ==
    [][\A key \in Keys, m \in MachineIds :
          ( /\ ~matchesKeyFormat(key) \/ m = <<>>
            /\ PostValidate(key, m, "none") )
          => /\ res'.status = 400
             /\ ~res'.body.valid
             /\ res'.stmts = <<>>]_vars

\* C10: a validate that returns valid:true has appended exactly one log entry
\* (validate, machineId) for the license and has set lastValidated to now.
C10_ValidateLogsOnce ==
    [][\A key \in Keys, m \in MachineIds, f \in AllValidateFaults :
          ( /\ PostValidate(key, m, f)
            /\ res'.status = 200
            /\ res'.body.valid )
          => LET row == getByKey(licenses', key)
             IN  /\ Len(logs') = Len(logs) + 1
                 /\ logs'[Len(logs')].license_id = row.id
                 /\ logs'[Len(logs')].machine_id = m
                 /\ logs'[Len(logs')].action = "validate"
                 /\ row.last_validated = Some(toISOString(now))]_vars

\* C16: a createLicense whose generated key collides with a stored key still
\* succeeds (it regenerates and retries).
C16_CollisionRetried ==
    [][\A body \in CreateBodies("valid"), rnd \in RandomDraws :
          ( /\ body.plan # Null
            /\ body.plan[1] \in {"monthly", "annual", "lifetime"}
            /\ getByKey(licenses, generateLicenseKey(rnd)).id # 0
            /\ PostCreate("valid", body, rnd, "none") )
          => /\ res'.status = 201
             /\ Len(licenses') = Len(licenses) + 1]_vars

\* C18: a successful createLicense appends one license whose key is well
\* formed and new to the store, with status active, no bound machine,
\* maxMachines as supplied (1 when not supplied) and expiresAt one month, one
\* year or a hundred years after now according to the plan; the licenses
\* already stored are unchanged.
C18_CreatePersists ==
    [][\A body \in CreateBodies("valid"), rnd \in RandomDraws :
          ( /\ PostCreate("valid", body, rnd, "none")
            /\ res'.status = 201 )
          => /\ Len(licenses') = Len(licenses) + 1
             /\ SubSeq(licenses', 1, Len(licenses)) = licenses
             /\ LET row == licenses'[Len(licenses')]
                IN  /\ matchesKeyFormat(row.key)
                    /\ getByKey(licenses, row.key).id = 0
                    /\ row.key = res'.body.license.key
                    /\ row.status = "active"
                    /\ machinesUsed(row) = <<>>
                    /\ row.plan = body.plan[1]
                    /\ row.max_machines =
                          (IF body.maxMachines = Null THEN 1 ELSE body.maxMachines[1])
                    /\ NewDate(row.expires_at) =
                          now + (CASE body.plan[1] = "monthly" -> 1
                                   [] body.plan[1] = "annual" -> 12
                                   [] body.plan[1] = "lifetime" -> 1200)]_vars

\* C18 witness: an annual and a lifetime license have been created.
C18_Witness ==
    /\ res.op = "create"
    /\ res.status = 201
    /\ \E i, j \in 1..Len(licenses) :
          /\ licenses[i].plan = "annual"
          /\ licenses[j].plan = "lifetime"
          /\ licenses[j].max_machines = 2

\* C20: a successful resetMachines(id) empties machinesUsed of license id and
\* leaves its other columns, every other license and the log entries already
\* present as they were.
C20_ResetFrame ==
    [][\A id \in Ids(licenses) :
          ( /\ PostResetMachines("valid", id, "none")
            /\ res'.status = 200 )
          => /\ Len(licenses') = Len(licenses)
             /\ \A i \in 1..Len(licenses) :
                   /\ licenses'[i].key = licenses[i].key
                   /\ licenses'[i].email = licenses[i].email
                   /\ licenses'[i].plan = licenses[i].plan
                   /\ licenses'[i].max_machines = licenses[i].max_machines
                   /\ licenses'[i].status = licenses[i].status
                   /\ licenses'[i].expires_at = licenses[i].expires_at
                   /\ licenses'[i].last_validated = licenses[i].last_validated
                   /\ machinesUsed(licenses'[i]) =
                         (IF i = id THEN <<>> ELSE machinesUsed(licenses[i]))
             /\ Len(logs') >= Len(logs)
             /\ SubSeq(logs', 1, Len(logs)) = logs]_vars

\* C20 witness: machines of a revoked license that had a machine validated
\* have been reset.
C20_Witness ==
    /\ res.op = "reset"
    /\ res.status = 200
    /\ licenses[res.id].status = "revoked"
    /\ machinesUsed(licenses[res.id]) = <<>>
    /\ \E a \in 1..Len(logs) : logs[a].license_id = res.id

(***************************************************************************)
(* Key generation on its own: the sixteen draws of one call are chosen in  *)
(* the initial state and generateLicenseKey is applied to them.            *)
(***************************************************************************)
MaxStep == 2

\* Draw sequences a, a+b, a+2b, ... (mod chars.length): every character of
\* the alphabet occurs at every position of the key.
KeyDraws ==
    {[n \in 1..16 |-> (a + b * n) % Len(chars)] :
        a \in 0..(Len(chars) - 1), b \in 0..MaxStep}

InitKeyGen ==
    /\ licenses = <<>>
    /\ logs = <<>>
    /\ now = 0
    /\ \E rnd \in KeyDraws :
          res = Response("draws", <<>>, <<>>, 0, 0, [rnd |-> rnd], <<>>)
    /\ revoked = {}
    /\ requests = 0
    /\ failures = 0
    /\ inflight = [c \in Clients |-> IdleClient]

GenerateKey ==
    /\ res.op = "draws"
    /\ res' = Response("generateLicenseKey", generateLicenseKey(res.body.rnd),
                       <<>>, 0, 0, res.body, <<>>)
    /\ UNCHANGED <<licenses, logs, now, revoked, requests, failures, inflight>>

NextKeyGen == GenerateKey

SpecKeyGen == InitKeyGen /\ [][NextKeyGen]_vars

\* C17: every key returned by generateLicenseKey is RATO followed by exactly
\* four groups of a hyphen and four characters of A-Z, 0-9.
C17_KeyFormat ==
    res.op = "generateLicenseKey" =>
        /\ Len(res.key) = 4 + 4 * 5
        /\ SubSeq(res.key, 1, 4) = <<"R", "A", "T", "O">>
        /\ \A g \in 0..3 :
              /\ res.key[5 + 5 * g] = "-"
              /\ \A c \in 1..4 : res.key[5 + 5 * g + c] \in Range(chars)

\* C17 witness: a key whose groups hold letters and digits has been
\* generated.
C17_Witness ==
    /\ res.op = "generateLicenseKey"
    /\ \E i, j \in 1..Len(res.key) :
          /\ res.key[i] \in {"0", "1", "2", "3", "4", "5", "6", "7", "8", "9"}
          /\ res.key[j] \in {"X", "Y", "Z"}

(***************************************************************************)
(* calculateExpiration on calendar dates.  A Date is the number of its     *)
(* local day counted from 1970-01-01; months are numbered from 0 as        *)
(* getMonth does.  setMonth and setFullYear rebuild the date from year,    *)
(* month and day of month and let a day beyond the end of the month run    *)
(* into the following month.                                               *)
(***************************************************************************)
FirstYear == 1996
NumYears == 5

isLeapYear(y) == (y % 4 = 0 /\ y % 100 # 0) \/ y % 400 = 0

DayFromYear(y) ==
    365 * (y - 1970) + ((y - 1969) \div 4) - ((y - 1901) \div 100)
        + ((y - 1601) \div 400)

DaysInMonth(y, m) ==
    IF m = 1 THEN (IF isLeapYear(y) THEN 29 ELSE 28)
    ELSE IF m \in {3, 5, 8, 10} THEN 30
    ELSE 31

RECURSIVE DaysBeforeMonth(_, _)
DaysBeforeMonth(y, m) ==
    IF m = 0 THEN 0 ELSE DaysBeforeMonth(y, m - 1) + DaysInMonth(y, m - 1)

\* The day number of day `date` of month `month` of `year`; month may exceed
\* 11 and date may exceed the length of the month.
MakeDay(year, month, date) ==
    LET ym == year + (month \div 12)
        mn == month % 12
    IN  DayFromYear(ym) + DaysBeforeMonth(ym, mn) + date - 1

CalendarYears == FirstYear..(FirstYear + NumYears + 101)

getFullYear(d) ==
    CHOOSE y \in CalendarYears : DayFromYear(y) <= d /\ d < DayFromYear(y + 1)

getMonth(d) ==
    LET y == getFullYear(d)
    IN  CHOOSE m \in 0..11 :
            /\ MakeDay(y, m, 1) <= d
            /\ d < MakeDay(y, m, 1) + DaysInMonth(y, m)

getDate(d) == d - MakeDay(getFullYear(d), getMonth(d), 1) + 1

setMonth(d, month) == MakeDay(getFullYear(d), month, getDate(d))

setFullYear(d, year) == MakeDay(year, getMonth(d), getDate(d))

\* A variant of calculateExpirationOn that adds thirty days for a month.
calculateExpirationThirtyDays(plan, today) ==
    CASE plan = "annual" -> toISOString(setFullYear(today, getFullYear(today) + 1))
      [] plan = "lifetime" -> toISOString(setFullYear(today, getFullYear(today) + 100))
      [] OTHER -> toISOString(today + 30)

\* calculateExpiration called on the day `today`.
calculateExpirationOn(plan, today) ==
    CASE plan = "monthly" -> toISOString(setMonth(today, getMonth(today) + 1))
      [] plan = "annual" -> toISOString(setFullYear(today, getFullYear(today) + 1))
      [] plan = "lifetime" -> toISOString(setFullYear(today, getFullYear(today) + 100))
      [] OTHER -> toISOString(setMonth(today, getMonth(today) + 1))

CallDays == MakeDay(FirstYear, 0, 1)..(MakeDay(FirstYear + NumYears, 0, 1) - 1)

Plans == {"monthly", "annual", "lifetime", "weekly"}

InitCalendar ==
    /\ licenses = <<>>
    /\ logs = <<>>
    /\ now = 0
    /\ \E plan \in Plans, today \in CallDays :
          res = Response("today", <<>>, <<>>, 0, 0,
                         [plan |-> plan, today |-> today, expires_at |-> Null], <<>>)
    /\ revoked = {}
    /\ requests = 0
    /\ failures = 0
    /\ inflight = [c \in Clients |-> IdleClient]

CalculateExpiration ==
    /\ res.op = "today"
    /\ res' = [res EXCEPT
                 !.op = "calculateExpiration",
                 !.body.expires_at =
                     Some(calculateExpirationOn(res.body.plan, res.body.today))]
    /\ UNCHANGED <<licenses, logs, now, revoked, requests, failures, inflight>>

NextCalendar == CalculateExpiration

SpecCalendar == InitCalendar /\ [][NextCalendar]_vars

\* Days from the call to the returned expiration.
daysAhead == NewDate(res.body.expires_at[1]) - res.body.today

\* C19 as stated: monthly is 30 plus or minus 1 days ahead, annual about 365
\* days (within a day), lifetime about 100 years (within a month of 36525
\* days).
C19_MonthlyThirtyPlusMinusOne ==
    res.op = "calculateExpiration" =>
        CASE res.body.plan = "monthly" -> daysAhead \in 29..31
          [] res.body.plan = "annual" -> daysAhead \in 364..366
          [] res.body.plan = "lifetime" -> daysAhead \in (36525 - 31)..(36525 + 31)
          [] OTHER -> TRUE

\* C19 amended: monthly is the length of the calendar month of the call (28
\* to 31 days) ahead, annual 365 or 366 days, lifetime 36524 or 36525 days.
C19_CalendarMonthAhead ==
    res.op = "calculateExpiration" =>
        CASE res.body.plan = "monthly" ->
                /\ daysAhead \in 28..31
                /\ daysAhead = DaysInMonth(getFullYear(res.body.today),
                                           getMonth(res.body.today))
          [] res.body.plan = "annual" -> daysAhead \in 365..366
          [] res.body.plan = "lifetime" -> daysAhead \in 36524..36525
          [] OTHER -> TRUE

\* C19 witness: a monthly expiration computed on a day of February of a
\* common year lies 28 days ahead.
C19_Witness ==
    /\ res.op = "calculateExpiration"
    /\ res.body.plan = "monthly"
    /\ getMonth(res.body.today) = 1
    /\ ~isLeapYear(getFullYear(res.body.today))
    /\ daysAhead = 28

\* The keys and machine ids clients send, and the stores they find: empty,
\* or one license made by createLicense.
ClientKeys == {key \in Keys : key # <<>>}

ClientMachineIds == {machineId \in MachineIds : machineId # <<>>}

ClientStores ==
    {<<>>} \cup
    {createLicense(<<>>, body, rnd, "none", 0).licenses :
        body \in {b \in CreateBodies("valid") :
                     b.plan \in {Some("monthly"), Some("annual"), Some("lifetime")}},
        rnd \in RandomDraws}

(***************************************************************************)
(* crypto.js: offline tokens.  A token is a JavaScript string, modelled as *)
(* the sequence of its character codes; the text that is encrypted is the  *)
(* sequence of the characters JSON.stringify writes.  Buffers are          *)
(* sequences of bytes.  AES-256-GCM and HMAC-SHA256 under the configured   *)
(* secret are replaced by arithmetic stand-ins with the properties the     *)
(* code relies on: decryption under the same iv inverts encryption, the    *)
(* tag depends on every byte of iv and ciphertext, and the digest on every *)
(* character of its message.                                               *)
(***************************************************************************)
IV_LENGTH == 16
AUTH_TAG_LENGTH == 16

\* The printable characters, code 32 to 126 (the grave accent, code 96, by
\* name).
Ascii ==
    <<" ", "!", "\"", "#", "$", "%", "&", "'", "(", ")", "*", "+",
      ",", "-", ".", "/", "0", "1", "2", "3", "4", "5", "6", "7",
      "8", "9", ":", ";", "<", "=", ">", "?", "@", "A", "B", "C",
      "D", "E", "F", "G", "H", "I", "J", "K", "L", "M", "N", "O",
      "P", "Q", "R", "S", "T", "U", "V", "W", "X", "Y", "Z", "[",
      "\\", "]", "^", "_", "grave", "a", "b", "c", "d", "e", "f", "g",
      "h", "i", "j", "k", "l", "m", "n", "o", "p", "q", "r", "s",
      "t", "u", "v", "w", "x", "y", "z", "{", "|", "}", "~">>

CharCodes ==
    [c \in {Ascii[i] : i \in 1..Len(Ascii)} |->
        31 + CHOOSE i \in 1..Len(Ascii) : Ascii[i] = c]

charCode(c) == CharCodes[c]

fromCharCode(n) == IF n \in 32..126 THEN Ascii[n - 31] ELSE "?"

\* cipher.update(text, utf8, hex) and decipher.update(encrypted, hex, utf8)
utf8(text) == [i \in 1..Len(text) |-> charCode(text[i])]

utf8Decode(bytes) == [i \in 1..Len(bytes) |-> fromCharCode(bytes[i])]

hexDigits == <<"0", "1", "2", "3", "4", "5", "6", "7", "8", "9",
               "a", "b", "c", "d", "e", "f">>

\* buf.toString(hex): two lower-case digits a byte, as character codes
hexCode(n) == IF n < 10 THEN charCode("0") + n ELSE charCode("a") + n - 10

toHex(bytes) ==
    [k \in 1..(2 * Len(bytes)) |->
        IF k % 2 = 1
        THEN hexCode(bytes[(k + 1) \div 2] \div 16)
        ELSE hexCode(bytes[k \div 2] % 16)]

\* The value of a hexadecimal digit in either case, -1 for any other code.
hexValue(code) ==
    IF code \in 48..57 THEN code - 48
    ELSE IF code \in 97..102 THEN code - 87
    ELSE IF code \in 65..70 THEN code - 55
    ELSE -1

\* Buffer.from(str, hex): decoding stops at the first pair that is not two
\* hexadecimal digits.
fromHex(str) ==
    LET pairs == 1..(Len(str) \div 2)
        bad == {p \in pairs : hexValue(str[2 * p - 1]) < 0 \/ hexValue(str[2 * p]) < 0}
        n == IF bad = {} THEN Len(str) \div 2
             ELSE (CHOOSE p \in bad : \A q \in bad : p <= q) - 1
    IN  [p \in 1..n |-> 16 * hexValue(str[2 * p - 1]) + hexValue(str[2 * p])]

\* str.slice(from, to) with 0 <= from <= to
slice(str, from, to) ==
    SubSeq(str, from + 1, IF to < Len(str) THEN to ELSE Len(str))

\* The sum of (offset + i) * (bytes[i] + 1) over the positions lo..hi.
RECURSIVE weightedSumOver(_, _, _, _)
weightedSumOver(bytes, lo, hi, offset) ==
    IF lo > hi THEN 0
    ELSE IF lo = hi THEN (offset + lo) * (bytes[lo] + 1)
    ELSE LET mid == (lo + hi) \div 2
         IN  weightedSumOver(bytes, lo, mid, offset)
               + weightedSumOver(bytes, mid + 1, hi, offset)

weightedSum(bytes, offset) == weightedSumOver(bytes, 1, Len(bytes), offset)

\* Stand-in for the AES-CTR key stream of GCM under the key of
\* getEncryptionKey; seed is weightedSum(iv, 0).
keystream(seed, i) == (seed * 31 + 17 * i + 101) % 256

\* Stand-in for the GCM authentication tag: AUTH_TAG_LENGTH bytes that
\* depend on every byte of the iv and of the ciphertext.
gcmTag(iv, ct) ==
    LET t == weightedSum(iv, 0) + weightedSum(ct, Len(iv))
    IN  [j \in 1..AUTH_TAG_LENGTH |->
            (((t \div (16 ^ ((j - 1) % 6))) % 256) + 29 * j + 130) % 256]

\* createCipheriv(...).update(...) + final() and getAuthTag()
gcmEncrypt(iv, plaintext) ==
    LET seed == weightedSum(iv, 0)
        ct == [i \in 1..Len(plaintext) |-> (plaintext[i] + keystream(seed, i)) % 256]
    IN  [ct |-> ct, tag |-> gcmTag(iv, ct)]

\* The tag lengths setAuthTag accepts when createDecipheriv was given no
\* authTagLength.
GcmTagLengths == {4, 8, 12, 13, 14, 15, 16}

\* createDecipheriv(...), setAuthTag, update, final: ok is FALSE where one
\* of them throws (empty iv, tag of a length that is not accepted, tag that
\* does not authenticate the ciphertext).
gcmDecrypt(iv, authTag, ct) ==
    IF /\ Len(iv) > 0
       /\ Len(authTag) \in GcmTagLengths
       /\ authTag = SubSeq(gcmTag(iv, ct), 1, Len(authTag))
    THEN LET seed == weightedSum(iv, 0)
         IN  [ok |-> TRUE,
              plaintext |-> [i \in 1..Len(ct) |->
                                (ct[i] + 256 - keystream(seed, i)) % 256]]
    ELSE [ok |-> FALSE, plaintext |-> <<>>]

\* The characters of a plan name and of the ISO text of a date (dates are
\* numbers of months in this model, written with four digits).
planChars(plan) ==
    CASE plan = "monthly" -> <<"m", "o", "n", "t", "h", "l", "y">>
      [] plan = "annual" -> <<"a", "n", "n", "u", "a", "l">>
      [] plan = "lifetime" -> <<"l", "i", "f", "e", "t", "i", "m", "e">>
      [] OTHER -> <<"u", "n", "d", "e", "f", "i", "n", "e", "d">>

digitChars == <<"0", "1", "2", "3", "4", "5", "6", "7", "8", "9">>

isoChars(date) ==
    [j \in 1..4 |-> digitChars[((date.iso \div (10 ^ (4 - j))) % 10) + 1]]

digitValue(c) ==
    IF \E i \in 1..10 : digitChars[i] = c
    THEN (CHOOSE i \in 1..10 : digitChars[i] = c) - 1
    ELSE -1

\* new Date(text): Null stands for an Invalid Date.
parseDate(text) ==
    IF Len(text) = 4 /\ \A j \in 1..4 : digitValue(text[j]) >= 0
    THEN Some(1000 * digitValue(text[1]) + 100 * digitValue(text[2])
                + 10 * digitValue(text[3]) + digitValue(text[4]))
    ELSE Null

\* The object that is encrypted, in the order its properties are written;
\* a property that is undefined is Null, and null is TRUE for the value null.
DataFields ==
    <<[name |-> "key", chars |-> <<"k", "e", "y">>],
      [name |-> "machineId", chars |-> <<"m", "a", "c", "h", "i", "n", "e", "I", "d">>],
      [name |-> "expiresAt", chars |-> <<"e", "x", "p", "i", "r", "e", "s", "A", "t">>],
      [name |-> "plan", chars |-> <<"p", "l", "a", "n">>],
      [name |-> "createdAt", chars |-> <<"c", "r", "e", "a", "t", "e", "d", "A", "t">>],
      [name |-> "validationSignature",
       chars |-> <<"v", "a", "l", "i", "d", "a", "t", "i", "o", "n",
                   "S", "i", "g", "n", "a", "t", "u", "r", "e">>]>>

EmptyData ==
    [null |-> FALSE, key |-> Null, machineId |-> Null, expiresAt |-> Null,
     plan |-> Null, createdAt |-> Null, validationSignature |-> Null]

NullData == [EmptyData EXCEPT !.null = TRUE]

quoted(text) == <<"\"">> \o text \o <<"\"">>

\* JSON.stringify of the properties from the i-th on; the strings of the
\* model hold no character that JSON escapes.
RECURSIVE stringifyMembers(_, _, _)
stringifyMembers(data, i, first) ==
    IF i > Len(DataFields) THEN <<>>
    ELSE IF data[DataFields[i].name] = Null
    THEN stringifyMembers(data, i + 1, first)
    ELSE (IF first THEN <<>> ELSE <<",">>)
           \o quoted(DataFields[i].chars) \o <<":">>
           \o quoted(data[DataFields[i].name][1])
           \o stringifyMembers(data, i + 1, FALSE)

JSONstringifyData(data) ==
    IF data.null THEN <<"n", "u", "l", "l">>
    ELSE <<"{">> \o stringifyMembers(data, 1, TRUE) \o <<"}">>

\* The position of the first c in text from position from on, 0 if none.
RECURSIVE indexOf(_, _, _)
indexOf(text, c, from) ==
    IF from > Len(text) THEN 0
    ELSE IF text[from] = c THEN from
    ELSE indexOf(text, c, from + 1)

withMember(data, nameChars, value) ==
    IF \E i \in 1..Len(DataFields) : DataFields[i].chars = nameChars
    THEN LET i == CHOOSE k \in 1..Len(DataFields) : DataFields[k].chars = nameChars
         IN  [data EXCEPT ![DataFields[i].name] = Some(value)]
    ELSE data

\* JSON.parse of "name":"value" members from position pos on; ok is FALSE
\* where JSON.parse throws a SyntaxError.
RECURSIVE parseMembers(_, _, _)
parseMembers(text, pos, data) ==
    LET nameEnd == indexOf(text, "\"", pos + 1)
        valueEnd == indexOf(text, "\"", nameEnd + 3)
    IN  IF \/ pos > Len(text) \/ text[pos] # "\""
           \/ nameEnd = 0 \/ nameEnd + 2 > Len(text)
           \/ text[nameEnd + 1] # ":" \/ text[nameEnd + 2] # "\""
           \/ valueEnd = 0 \/ valueEnd + 1 > Len(text)
        THEN [ok |-> FALSE, value |-> NullData]
        ELSE LET next == withMember(data, SubSeq(text, pos + 1, nameEnd - 1),
                                    SubSeq(text, nameEnd + 3, valueEnd - 1))
             IN  IF text[valueEnd + 1] = "}" /\ valueEnd + 1 = Len(text)
                 THEN [ok |-> TRUE, value |-> next]
                 ELSE IF text[valueEnd + 1] = ","
                 THEN parseMembers(text, valueEnd + 2, next)
                 ELSE [ok |-> FALSE, value |-> NullData]

JSONparseData(text) ==
    IF text = <<"n", "u", "l", "l">> THEN [ok |-> TRUE, value |-> NullData]
    ELSE IF text = <<"{", "}">> THEN [ok |-> TRUE, value |-> EmptyData]
    ELSE IF Len(text) > 2 /\ text[1] = "{"
    THEN parseMembers(text, 2, EmptyData)
    ELSE [ok |-> FALSE, value |-> NullData]

\* Stand-in for createHmac(sha256, config.licenseSecret).update(message)
\* .digest(hex): eight hexadecimal digits that depend on every character of
\* the message.
hmacSha256Hex(message) ==
    LET t == weightedSum(utf8(message), 3) + 7919 * Len(message) + 104729
    IN  [j \in 1..8 |-> hexDigits[((t \div (16 ^ (8 - j))) % 16) + 1]]

\* A variant of plus3 that concatenates in the opposite order.
plus3Reversed(a, b, c) ==
    LET text(x) == IF x = Null THEN <<"u", "n", "d", "e", "f", "i", "n", "e", "d">>
                   ELSE x[1]
    IN  IF a = Null /\ b = Null /\ c = Null THEN Null
        ELSE Some(text(c) \o text(b) \o text(a))

\* a + b + c of JavaScript for operands that are strings or undefined: Null
\* where the result is the number NaN and not a string.
plus3(a, b, c) ==
    LET text(x) == IF x = Null THEN <<"u", "n", "d", "e", "f", "i", "n", "e", "d">>
                   ELSE x[1]
    IN  IF a = Null /\ b = Null /\ c = Null THEN Null
        ELSE IF a = Null /\ b = Null THEN Some(<<"N", "a", "N">> \o c[1])
        ELSE Some(text(a) \o text(b) \o text(c))

\* crypto.js:319-331; iv is the value of crypto.randomBytes(IV_LENGTH)
encryptLicenseData(data, iv) ==
    LET sealed == gcmEncrypt(iv, utf8(JSONstringifyData(data)))
    IN  toHex(iv) \o toHex(sealed.tag) \o toHex(sealed.ct)

\* crypto.js:336-356: the parsed object, and NullData (null) when anything
\* in the try block throws.
decryptLicenseData(encryptedData) ==
    LET iv == fromHex(slice(encryptedData, 0, IV_LENGTH * 2))
        authTag == fromHex(slice(encryptedData, IV_LENGTH * 2,
                                 IV_LENGTH * 2 + AUTH_TAG_LENGTH * 2))
        encrypted == slice(encryptedData, IV_LENGTH * 2 + AUTH_TAG_LENGTH * 2,
                           Len(encryptedData))
        opened == gcmDecrypt(iv, authTag, fromHex(encrypted))
        parsed == JSONparseData(utf8Decode(opened.plaintext))
    IN  IF opened.ok /\ parsed.ok THEN parsed.value ELSE NullData

\* crypto.js:369-380: the object createOfflineToken encrypts
offlineTokenData(license, machineId, t) ==
    [null |-> FALSE,
     key |-> Some(license.key),
     machineId |-> Some(machineId),
     expiresAt |-> Some(isoChars(license.expires_at)),
     plan |-> Some(planChars(license.plan)),
     createdAt |-> Some(isoChars(toISOString(t))),
     validationSignature |->
         Some(hmacSha256Hex(license.key \o machineId
                              \o isoChars(license.expires_at)))]

\* crypto.js:369-382: the token string
sealOfflineToken(license, machineId, t, iv) ==
    encryptLicenseData(offlineTokenData(license, machineId, t), iv)

\* A variant of verifyOfflineToken that looks the license up in the store
\* and refuses the token of a revoked license.
verifyOfflineTokenOnline(token, t) ==
    LET data == decryptLicenseData(token)
        expires == IF data.expiresAt = Null THEN Null
                   ELSE parseDate(data.expiresAt[1])
    IN  IF data.null \/ data.key = Null
        THEN [kind |-> "return", value |-> Invalid("Invalid token")]
        ELSE IF getByKey(licenses, data.key[1]).id # 0
                  /\ getByKey(licenses, data.key[1]).status = "revoked"
        THEN [kind |-> "return", value |-> Invalid("License revoked")]
        ELSE IF expires # Null /\ expires[1] < t
        THEN [kind |-> "return", value |-> Invalid("License expired")]
        ELSE [kind |-> "return", value |-> [valid |-> TRUE, data |-> data]]


\* crypto.js:387-407 at time t; kind is "throw" where hmac.update is given
\* a value that is not a string and throws a TypeError.
verifyOfflineToken(token, t) ==
    LET data == decryptLicenseData(token)
        expires == IF data.expiresAt = Null THEN Null
                   ELSE parseDate(data.expiresAt[1])
        message == plus3(data.key, data.machineId, data.expiresAt)
    IN  IF data.null
        THEN [kind |-> "return", value |-> Invalid("Invalid token")]
        ELSE IF expires # Null /\ expires[1] < t
        THEN [kind |-> "return", value |-> Invalid("License expired")]
        ELSE IF message = Null
        THEN [kind |-> "throw", value |-> Invalid("TypeError")]
        ELSE IF data.validationSignature # Some(hmacSha256Hex(message[1]))
        THEN [kind |-> "return", value |-> Invalid("Invalid signature")]
        ELSE [kind |-> "return", value |-> [valid |-> TRUE, data |-> data]]

(***************************************************************************)
(* Offline tokens on their own: a license, a machine id, an object to      *)
(* encrypt and the random iv are chosen in the initial state; a token is   *)
(* made by createOfflineToken or by encryptLicenseData, or arrives from    *)
(* elsewhere; time may pass; one bit of one character of the token may be  *)
(* flipped; verifyOfflineToken is applied.                                 *)
(***************************************************************************)
MaxTokenTime == 2

IvDraws ==
    {[i \in 1..IV_LENGTH |-> (37 * i + 11) % 256],
     [i \in 1..IV_LENGTH |-> (101 * i + 7) % 256]}

TokenLicenses == {store[1] : store \in ClientStores \ {<<>>}}

\* Objects handed to encryptLicenseData: the one createOfflineToken builds,
\* the same with a signature for another machine, without signature, without
\* expiresAt, objects without any of the signed properties, and null.
TokenDatas(license, machineId) ==
    LET data == offlineTokenData(license, machineId, 0)
    IN  {data,
         [data EXCEPT !.validationSignature =
             Some(hmacSha256Hex(license.key \o <<"m", "9">>
                                  \o isoChars(license.expires_at)))],
         [data EXCEPT !.validationSignature = Null],
         [data EXCEPT !.expiresAt = Null],
         EmptyData,
         [EmptyData EXCEPT !.plan = Some(planChars(license.plan))],
         NullData}

\* Strings that no encryptLicenseData produced: the empty string, "zz", and
\* 40 bytes of zeros in hexadecimal.
ForeignTokens ==
    {<<>>, <<122, 122>>, toHex([i \in 1..(2 * IV_LENGTH + 8) |-> 0])}

NoResult == [kind |-> "none", value |-> Invalid("")]

TokenBody(license, iv, data, token, origin, flip, result) ==
    [license |-> license, iv |-> iv, data |-> data, token |-> token,
     origin |-> origin, flip |-> flip, result |-> result]

InitToken ==
    /\ licenses = <<>>
    /\ logs = <<>>
    /\ now = 0
    /\ \E license \in TokenLicenses, machineId \in ClientMachineIds, iv \in IvDraws :
          \E data \in TokenDatas(license, machineId) :
             res = Response("input", license.key, machineId, 0, 0,
                            TokenBody(license, iv, data, <<>>, "none",
                                      <<0, 0>>, NoResult),
                            <<>>)
    /\ revoked = {}
    /\ requests = 0
    /\ failures = 0
    /\ inflight = [c \in Clients |-> IdleClient]

TokenFrame == UNCHANGED <<licenses, logs, revoked, requests, failures, inflight>>

\* crypto.js:369-382
CreateOfflineToken ==
    /\ res.op = "input"
    /\ res' = [res EXCEPT
                 !.op = "token",
                 !.body.data = offlineTokenData(res.body.license, res.machineId, now),
                 !.body.origin = "createOfflineToken",
                 !.body.token = sealOfflineToken(res.body.license, res.machineId,
                                                 now, res.body.iv)]
    /\ UNCHANGED now
    /\ TokenFrame

\* crypto.js:319-331
EncryptLicenseData ==
    /\ res.op = "input"
    /\ res' = [res EXCEPT
                 !.op = "token",
                 !.body.origin = "encryptLicenseData",
                 !.body.token = encryptLicenseData(res.body.data, res.body.iv)]
    /\ UNCHANGED now
    /\ TokenFrame

\* A string from elsewhere is presented as a token.
ForeignToken(token) ==
    /\ res.op = "input"
    /\ res' = [res EXCEPT !.op = "token",
                          !.body.data = NullData,
                          !.body.origin = "foreign",
                          !.body.token = token]
    /\ UNCHANGED now
    /\ TokenFrame

\* Time passes between the making of a token and its verification.
TickToken ==
    /\ res.op = "token"
    /\ res.body.origin # "flipped"
    /\ now < MaxTokenTime
    /\ now' = now + 1
    /\ UNCHANGED res
    /\ TokenFrame

\* The character code with bit k flipped.
flipBit(code, k) ==
    IF (code \div (2 ^ k)) % 2 = 1 THEN code - 2 ^ k ELSE code + 2 ^ k

FlipBits == 0..7

\* The positions of the token at hand where a bit may be flipped.
FlipPositions ==
    IF res.op = "token" /\ res.body.origin = "createOfflineToken" /\ now = 0
    THEN 1..Len(res.body.token)
    ELSE {}

\* One bit of one character of a token fresh from createOfflineToken is
\* flipped.
FlipBit(i, k) ==
    /\ i \in FlipPositions
    /\ res' = [res EXCEPT
                 !.body.origin = "flipped",
                 !.body.flip = <<i, k>>,
                 !.body.token = [res.body.token EXCEPT ![i] = flipBit(@, k)]]
    /\ UNCHANGED now
    /\ TokenFrame

\* crypto.js:387-407
VerifyOfflineToken ==
    /\ res.op = "token"
    /\ res' = [res EXCEPT !.op = "verifyOfflineToken",
                          !.body.result = verifyOfflineToken(res.body.token, now)]
    /\ UNCHANGED now
    /\ TokenFrame

NextToken ==
    \/ CreateOfflineToken
    \/ EncryptLicenseData
    \/ \E token \in ForeignTokens : ForeignToken(token)
    \/ TickToken
    \/ \E i \in FlipPositions, k \in FlipBits : FlipBit(i, k)
    \/ VerifyOfflineToken

SpecToken == InitToken /\ [][NextToken]_vars

\* C12: a token made by createOfflineToken for a license whose expiresAt is
\* in the future verifies valid:true, and the data returned carry the key,
\* the machine id and the expiresAt that went in.
C12_RoundTrip ==
    ( /\ res.op = "verifyOfflineToken"
      /\ res.body.origin = "createOfflineToken"
      /\ NewDate(res.body.license.expires_at) > now )
    => /\ res.body.result.kind = "return"
       /\ res.body.result.value.valid
       /\ res.body.result.value.data.key = Some(res.body.license.key)
       /\ res.body.result.value.data.machineId = Some(res.machineId)
       /\ res.body.result.value.data.expiresAt # Null
       /\ parseDate(res.body.result.value.data.expiresAt[1])
             = Some(NewDate(res.body.license.expires_at))

\* C12 witness: the token of an annual license was verified valid two
\* months after it was made.
C12_Witness ==
    /\ res.op = "verifyOfflineToken"
    /\ res.body.origin = "createOfflineToken"
    /\ res.body.license.plan = "annual"
    /\ now = MaxTokenTime
    /\ res.body.result.kind = "return"
    /\ res.body.result.value.valid

\* C13: a valid token with any single bit of its string flipped is refused.
C13_AnyBitFlipInvalidates ==
    (res.op = "verifyOfflineToken" /\ res.body.origin = "flipped")
    => /\ res.body.result.kind = "return"
       /\ ~res.body.result.value.valid

\* The reason texts in lower case, as the interface description writes them.
lowerCase(reason) ==
    CASE reason = "Invalid token" -> "invalid token"
      [] reason = "License expired" -> "license expired"
      [] reason = "Invalid signature" -> "invalid signature"
      [] OTHER -> reason

\* C14: verifyOfflineToken never throws and returns the first failure of:
\* the token cannot be decrypted or parsed (invalid token), the decrypted
\* expiresAt is earlier than now (license expired), the HMAC recomputed over
\* key, machineId and expiresAt differs from validationSignature (invalid
\* signature); otherwise valid:true with the data.  Reason texts are compared
\* without regard to letter case.
C14_NeverThrowsDecidesInOrder ==
    res.op = "verifyOfflineToken" =>
        LET data == decryptLicenseData(res.body.token)
            result == res.body.result
            expires == IF data.expiresAt = Null THEN Null
                       ELSE parseDate(data.expiresAt[1])
            message == plus3(data.key, data.machineId, data.expiresAt)
        IN  /\ result.kind = "return"
            /\ IF data.null
               THEN /\ ~result.value.valid
                    /\ lowerCase(result.value.reason) = "invalid token"
               ELSE IF expires # Null /\ expires[1] < now
               THEN /\ ~result.value.valid
                    /\ lowerCase(result.value.reason) = "license expired"
               ELSE IF \/ message = Null
                       \/ data.validationSignature # Some(hmacSha256Hex(message[1]))
               THEN /\ ~result.value.valid
                    /\ lowerCase(result.value.reason) = "invalid signature"
               ELSE /\ result.value.valid
                    /\ result.value.data = data

(***************************************************************************)
(* Validate requests of several clients in flight at once.  The handler of *)
(* POST /validate is a synchronous function over a synchronous database    *)
(* driver: it has no await and no callback, so the event loop runs it to   *)
(* completion before it starts the handler of another request.  The        *)
(* handler is taken in two steps here, its reads up to the parsed machine  *)
(* list and its writes from the binding on, and runsToCompletion is what   *)
(* keeps another handler from starting between the two.  A client keeps    *)
(* the offline token of a valid answer and may verify it later, offline;   *)
(* meanwhile the administrator may revoke licenses and time passes.        *)
(***************************************************************************)
MaxClientTime == 2

\* license.js:60-109
vlReadPhase(s, key, t) ==
    LET s1 == vlSelect(s, key, "none")
        s2 == vlAutoCreate(s1, key, "none", t)
        s3 == vlNotFound(s2)
        s4 == vlForceActive(s3, "none")
        s5 == vlExtendExpiry(s4, "none", t)
    IN  vlParseMachines(s5)

\* license.js:111-141
vlWritePhase(s, machineId, t) ==
    LET s7 == vlBindMachine(s, machineId, "none")
        s8 == vlLastValidated(s7, "none", t)
        s9 == vlLog(s8, machineId, "none", t)
    IN  vlReturn(s9, machineId, t)

\* A scheduler that starts a handler while another one is between its steps.
runsInterleaved(c) == TRUE

\* No handler of another request is between its steps.
runsToCompletion(c) == \A d \in Clients \ {c} : inflight[d].pc # "running"

\* The clients start from the empty store or from one holding the license
\* of the first key; they ask for the stored keys and for a key that was
\* never issued, and the tokens they receive are made with the first iv.
InitialStores ==
    {store \in ClientStores :
        \A i \in 1..Len(store) : store[i].key = generateLicenseKey([n \in 1..16 |-> 0])}

RequestedKeys ==
    {key \in ClientKeys :
        getByKey(licenses, key).id # 0 \/ key = <<"R", "A", "T", "O", "-", "X">>}

ClientIvDraws == {[i \in 1..IV_LENGTH |-> (37 * i + 11) % 256]}

InitClients ==
    /\ licenses \in InitialStores
    /\ logs = <<>>
    /\ now = 0
    /\ res = Response("none", <<>>, <<>>, 0, 0, ErrorBody(""), <<>>)
    /\ revoked = {}
    /\ requests = 0
    /\ failures = 0
    /\ inflight = [c \in Clients |-> IdleClient]

\* A client sends POST /validate with a key and a machine id.
SendValidate(c, key, machineId) ==
    /\ inflight[c].pc = "idle"
    /\ inflight' = [inflight EXCEPT ![c].pc = "sent", ![c].key = key,
                                    ![c].machineId = machineId]
    /\ UNCHANGED <<licenses, logs, now, res, revoked, requests, failures>>

\* routes/licenses.js:14-26 with license.js:60-109
BeginValidate(c) ==
    /\ inflight[c].pc = "sent"
    /\ runsToCompletion(c)
    /\ LET s == vlReadPhase(vlStart(licenses, logs), inflight[c].key, now)
       IN  /\ licenses' = s.licenses
           /\ logs' = s.logs
           /\ inflight' =
                 [inflight EXCEPT
                    ![c].pc = IF s.done THEN "done" ELSE "running",
                    ![c].license = s.license,
                    ![c].machines = s.machines,
                    ![c].ret = IF s.done THEN s.ret.value ELSE @]
    /\ UNCHANGED <<now, res, revoked, requests, failures>>

\* license.js:111-141 with routes/licenses.js:24; iv is the value of
\* crypto.randomBytes in the encryptLicenseData of createOfflineToken.
FinishValidate(c, iv) ==
    /\ inflight[c].pc = "running"
    /\ LET s0 == [vlStart(licenses, logs) EXCEPT
                    !.license = inflight[c].license,
                    !.machines = inflight[c].machines]
           s == vlWritePhase(s0, inflight[c].machineId, now)
       IN  /\ licenses' = s.licenses
           /\ logs' = s.logs
           /\ inflight' =
                 [inflight EXCEPT
                    ![c].pc = "done",
                    ![c].machines = s.machines,
                    ![c].ret = s.ret.value,
                    ![c].token = sealOfflineToken(s.license, inflight[c].machineId,
                                                  now, iv)]
    /\ UNCHANGED <<now, res, revoked, requests, failures>>

\* routes/licenses.js:106-115 with license.js:198-201, by the administrator
RevokeLicense(id) ==
    /\ runsToCompletion(0)
    /\ id \in 1..Len(licenses)
    /\ licenses' = revokeLicense(licenses, id)
    /\ revoked' = revoked \cup {id}
    /\ UNCHANGED <<logs, now, res, requests, failures, inflight>>

TickClients ==
    /\ now < MaxClientTime
    /\ now' = now + 1
    /\ UNCHANGED <<licenses, logs, res, revoked, requests, failures, inflight>>

\* crypto.js:387-407 on the client: the held token is verified offline
VerifyHeld(c) ==
    /\ inflight[c].pc = "done"
    /\ inflight[c].ret.valid
    /\ inflight' = [inflight EXCEPT
                      ![c].pc = "verified",
                      ![c].verifiedAt = now,
                      ![c].offline = verifyOfflineToken(inflight[c].token, now)]
    /\ UNCHANGED <<licenses, logs, now, res, revoked, requests, failures>>

NextClients ==
    \/ \E c \in Clients, key \in RequestedKeys, machineId \in ClientMachineIds :
          SendValidate(c, key, machineId)
    \/ \E c \in Clients : BeginValidate(c)
    \/ \E c \in Clients, iv \in ClientIvDraws : FinishValidate(c, iv)

SpecClients == InitClients /\ [][NextClients]_vars

\* One client validates and keeps its token; licenses are revoked and time
\* passes; the client verifies the token offline.
TokenHolders == {1}

NextOffline ==
    \/ \E c \in TokenHolders, key \in RequestedKeys, machineId \in ClientMachineIds :
          SendValidate(c, key, machineId)
    \/ \E c \in TokenHolders : BeginValidate(c)
    \/ \E c \in TokenHolders, iv \in ClientIvDraws : FinishValidate(c, iv)
    \/ \E id \in 1..Len(licenses) : RevokeLicense(id)
    \/ TickClients
    \/ \E c \in TokenHolders : VerifyHeld(c)

SpecOffline == InitClients /\ [][NextOffline]_vars

\* C11: every client whose validate was answered valid:true has its machine
\* in machinesUsed of the license, whatever other validate requests were in
\* flight at the same time.
C11_NoLostUpdate ==
    \A c \in Clients :
        (inflight[c].pc = "done" /\ inflight[c].ret.valid)
        => includes(machinesUsed(getByKey(licenses, inflight[c].key)),
                    inflight[c].machineId)

\* C11 witness: two requests for the same key with different machine ids
\* were in flight together, both were answered valid:true and both machines
\* are bound.
C11_Witness ==
    \E c, d \in Clients :
        /\ inflight[c].pc = "done" /\ inflight[c].ret.valid
        /\ inflight[d].pc = "done" /\ inflight[d].ret.valid
        /\ inflight[c].key = inflight[d].key
        /\ inflight[c].machineId # inflight[d].machineId
        /\ includes(machinesUsed(getByKey(licenses, inflight[c].key)),
                    inflight[c].machineId)
        /\ includes(machinesUsed(getByKey(licenses, inflight[c].key)),
                    inflight[d].machineId)

\* C15: what verifyOfflineToken answers for a token issued by a successful
\* validate depends on the token and the time of verification only: valid
\* exactly when the expiresAt in the token has not passed, whether or not the
\* license has been revoked since.
C15_OfflineIgnoresStore ==
    \A c \in Clients :
        inflight[c].pc = "verified" =>
            /\ inflight[c].offline.kind = "return"
            /\ inflight[c].offline.value.valid
                  = ~(NewDate(inflight[c].ret.license.expiresAt)
                        < inflight[c].verifiedAt)
            /\ inflight[c].offline.value.valid =>
                  inflight[c].offline.value.data.key = Some(inflight[c].key)

\* C15 witness: a token verified valid:true after its license was revoked.
C15_Witness ==
    \E c \in Clients :
        /\ inflight[c].pc = "verified"
        /\ inflight[c].offline.value.valid
        /\ getByKey(licenses, inflight[c].key).id \in revoked
        /\ getByKey(licenses, inflight[c].key).status = "revoked"

(***************************************************************************)
(* The administration of licenses: every route of routes/licenses.js, the  *)
(* four GET routes included, with request bodies that carry values outside *)
(* the data model (the routes pass req.body to the service as it is).  No  *)
(* SQL statement throws here.  The clock reads 1, so that a date of 0 is   *)
(* in the past.                                                            *)
(***************************************************************************)
MaxAdminRequests == 3

AdminKeys ==
    {generateLicenseKey([n \in 1..16 |-> 0]),
     <<"R", "A", "T", "O", "-", "X">>,
     <<"B", "A", "D">>}

AdminMachineIds == {<<"m", "1">>, <<"m", "2">>}

\* A text that is not a date.
NotADate == [text |-> "soon"]

AdminCreateBodies(session) ==
    IF session # "valid" THEN {NoBody}
    ELSE {NoBody,
          [NoBody EXCEPT !.plan = Some("weekly")],
          [NoBody EXCEPT !.plan = Some("monthly")],
          [NoBody EXCEPT !.plan = Some("annual"), !.email = Some("a@b.c"),
                         !.maxMachines = Some(2)],
          [NoBody EXCEPT !.plan = Some("lifetime"), !.maxMachines = Some(0)],
          [NoBody EXCEPT !.plan = Some("monthly"), !.maxMachines = Some(-1)]}

AdminUpdateDatas(session) ==
    IF session # "valid" THEN {NoData}
    ELSE {NoData,
          [NoData EXCEPT !.email = Some("a@b.c")],
          [NoData EXCEPT !.plan = Some("annual")],
          [NoData EXCEPT !.plan = Some("weekly")],
          [NoData EXCEPT !.maxMachines = Some(0)],
          [NoData EXCEPT !.maxMachines = Some(3)],
          [NoData EXCEPT !.status = Some("expired")],
          [NoData EXCEPT !.status = Some("revoked")],
          [NoData EXCEPT !.status = Some("banned")],
          [NoData EXCEPT !.expiresAt = Some(toISOString(0))],
          [NoData EXCEPT !.expiresAt = Some(NotADate)],
          [NoData EXCEPT !.email = Some("d@e.f"), !.plan = Some("lifetime"),
                         !.maxMachines = Some(2), !.status = Some("active"),
                         !.expiresAt = Some(toISOString(5))]}

InitAdmin ==
    /\ licenses = <<>>
    /\ logs = <<>>
    /\ now = 1
    /\ res = Response("none", <<>>, <<>>, 0, 0, ErrorBody(""), <<>>)
    /\ revoked = {}
    /\ requests = 0
    /\ failures = 0
    /\ inflight = [c \in Clients |-> IdleClient]

\* license.js:146-148; created_at is not kept, so the rows come as a set.
getAllLicenses(table) == Range(table)

\* license.js:236-250
getStats(table) ==
    LET count(status) ==
            Cardinality({i \in 1..Len(table) : table[i].status = status})
        activePlans == {table[i].plan : i \in {j \in 1..Len(table) :
                                                 table[j].status = "active"}}
    IN  [total |-> Len(table),
         active |-> count("active"),
         expired |-> count("expired"),
         revoked |-> count("revoked"),
         byPlan |-> [plan \in activePlans |->
                        Cardinality({i \in 1..Len(table) :
                                        /\ table[i].status = "active"
                                        /\ table[i].plan = plan})]]

\* routes/licenses.js:32-35
GetLicenses(session) ==
    LET auth == authMiddleware(session)
    IN  IF ~auth.next THEN Unauthorized("list", 0, auth)
        ELSE /\ res' = Response("list", <<>>, <<>>, 0, 200,
                                [licenses |-> getAllLicenses(licenses)],
                                <<"select">>)
             /\ UNCHANGED <<licenses, logs, now, revoked>>

\* routes/licenses.js:41-44
GetStats(session) ==
    LET auth == authMiddleware(session)
    IN  IF ~auth.next THEN Unauthorized("stats", 0, auth)
        ELSE /\ res' = Response("stats", <<>>, <<>>, 0, 200,
                                getStats(licenses), <<"select">>)
             /\ UNCHANGED <<licenses, logs, now, revoked>>

\* routes/licenses.js:50-58
GetLicense(session, id) ==
    LET auth == authMiddleware(session)
    IN  IF ~auth.next THEN Unauthorized("get", id, auth)
        ELSE /\ res' = IF getLicenseById(licenses, id).id = 0
                       THEN Response("get", <<>>, <<>>, id, 404,
                                     ErrorBody("License not found"), <<"select">>)
                       ELSE Response("get", <<>>, <<>>, id, 200,
                                     [license |-> getLicenseById(licenses, id)],
                                     <<"select">>)
             /\ UNCHANGED <<licenses, logs, now, revoked>>

\* routes/licenses.js:64-67
GetLogs(session, id) ==
    LET auth == authMiddleware(session)
    IN  IF ~auth.next THEN Unauthorized("logs", id, auth)
        ELSE /\ res' = Response("logs", <<>>, <<>>, id, 200,
                                [logs |-> getActivationLogs(logs, id)],
                                <<"select">>)
             /\ UNCHANGED <<licenses, logs, now, revoked>>

ServedAdmin ==
    /\ requests < MaxAdminRequests
    /\ requests' = requests + 1
    /\ UNCHANGED <<failures, inflight>>

NextAdmin ==
    \/ \E key \in AdminKeys, machineId \in AdminMachineIds :
          /\ ServedAdmin
          /\ PostValidate(key, machineId, "none")
    \/ \E session \in Sessions, rnd \in RandomDraws :
          \E body \in AdminCreateBodies(session) :
             /\ ServedAdmin
             /\ PostCreate(session, body, rnd, "none")
    \/ \E session \in Sessions, id \in Ids(licenses) :
          \E data \in AdminUpdateDatas(session) :
             /\ ServedAdmin
             /\ PutUpdate(session, id, data, "none")
    \/ \E session \in Sessions, id \in Ids(licenses) :
          /\ ServedAdmin
          /\ DeleteRevoke(session, id, "none")
    \/ \E session \in Sessions, id \in Ids(licenses) :
          /\ ServedAdmin
          /\ PostResetMachines(session, id, "none")
    \/ \E session \in Sessions :
          /\ ServedAdmin
          /\ GetLicenses(session)
    \/ \E session \in Sessions :
          /\ ServedAdmin
          /\ GetStats(session)
    \/ \E session \in Sessions, id \in Ids(licenses) :
          /\ ServedAdmin
          /\ GetLicense(session, id)
    \/ \E session \in Sessions, id \in Ids(licenses) :
          /\ ServedAdmin
          /\ GetLogs(session, id)

SpecAdmin == InitAdmin /\ [][NextAdmin]_vars

\* C21: a successful updateLicense(id, data) gives each supplied field of
\* email, plan, maxMachines, status, expiresAt its supplied value and leaves
\* the unsupplied ones, the key, machinesUsed, lastValidated, every other
\* license and the activation log as they were; without a supplied field it
\* changes nothing.
C21_UpdateFrame ==
    [][\A id \in Ids(licenses), data \in AdminUpdateDatas("valid") :
          ( /\ PutUpdate("valid", id, data, "none")
            /\ res'.status = 200 )
          => /\ Len(licenses') = Len(licenses)
             /\ logs' = logs
             /\ \A i \in 1..Len(licenses) : i # id => licenses'[i] = licenses[i]
             /\ LET old == licenses[id]
                    new == licenses'[id]
                IN  /\ new.id = old.id
                    /\ new.key = old.key
                    /\ new.machines_used = old.machines_used
                    /\ new.last_validated = old.last_validated
                    /\ new.email = (IF data.email = Null THEN old.email
                                    ELSE data.email)
                    /\ new.plan = (IF data.plan = Null THEN old.plan
                                   ELSE data.plan[1])
                    /\ new.max_machines = (IF data.maxMachines = Null
                                           THEN old.max_machines
                                           ELSE data.maxMachines[1])
                    /\ new.status = (IF data.status = Null THEN old.status
                                     ELSE data.status[1])
                    /\ new.expires_at = (IF data.expiresAt = Null
                                         THEN old.expires_at
                                         ELSE data.expiresAt[1])
             /\ noUpdates(data) => licenses' = licenses]_vars

\* C21 witness: an update that supplied only the status has been answered
\* with the license, which had been validated and has a machine bound, and a
\* second license is stored.
C21_Witness ==
    /\ res.op = "update"
    /\ res.status = 200
    /\ Len(licenses) = 2
    /\ res.body.license.status = "banned"
    /\ res.body.license.last_validated # Null
    /\ machinesUsed(res.body.license) # <<>>

\* C22: in every step the activation log keeps every entry it has, at the
\* same place and with the same licenseId, machineId and action: entries are
\* only appended.
C22_LogAppendOnly ==
    [][/\ Len(logs') >= Len(logs)
       /\ \A i \in 1..Len(logs) :
             /\ logs'[i].id = logs[i].id
             /\ logs'[i].license_id = logs[i].license_id
             /\ logs'[i].machine_id = logs[i].machine_id
             /\ logs'[i].action = logs[i].action]_vars

\* C22 witness: the log holds the entries of two validations, and the
\* machines of the license they belong to have since been reset.
C22_Witness ==
    /\ Len(logs) = 2
    /\ logs[1].license_id = logs[2].license_id
    /\ res.op = "reset"
    /\ res.status = 200
    /\ res.id = logs[1].license_id

\* The requests of the administrative routes that a session sends.
AdminRequest(session) ==
    \/ \E rnd \in RandomDraws, body \in AdminCreateBodies(session) :
          PostCreate(session, body, rnd, "none")
    \/ GetLicenses(session)
    \/ GetStats(session)
    \/ \E id \in Ids(licenses) :
          \/ GetLicense(session, id)
          \/ GetLogs(session, id)
          \/ DeleteRevoke(session, id, "none")
          \/ PostResetMachines(session, id, "none")
          \/ \E data \in AdminUpdateDatas(session) :
                PutUpdate(session, id, data, "none")

\* C23: create, list, get by id, statistics, activation logs, update, revoke
\* and reset machines, requested without a token or with a token that
\* jwt.verify rejects, are answered 401 and leave the licenses and the
\* activation log as they were; validate, which carries no session, is
\* served (never answered 401).
C23_AdminNeedsSession ==
    [][/\ \A session \in Sessions \ {"valid"} :
             AdminRequest(session)
             => /\ res'.status = 401
                /\ licenses' = licenses
                /\ logs' = logs
       /\ \A key \in AdminKeys, machineId \in AdminMachineIds :
             PostValidate(key, machineId, "none")
             => /\ res'.op = "validate"
                /\ res'.status = 200]_vars

\* C23 witness: a request to revoke a stored, validated license has been
\* refused for want of a token.
C23_Witness ==
    /\ res.op = "revoke"
    /\ res.status = 401
    /\ res.body = ErrorBody("Authentication required")
    /\ Len(licenses) >= 1
    /\ Len(logs) >= 1
    /\ \A i \in 1..Len(licenses) : licenses[i].status = "active"

\* C24: every stored license has a status of active, expired or revoked, a
\* plan of monthly, annual or lifetime and maxMachines of at least 1.
C24_FieldsInRange ==
    \A i \in 1..Len(licenses) :
        /\ licenses[i].status \in {"active", "expired", "revoked"}
        /\ licenses[i].plan \in {"monthly", "annual", "lifetime"}
        /\ licenses[i].max_machines >= 1

\* C25: a successful revokeLicense(id) appends to the activation log one
\* entry for license id with action revoke, and a successful
\* resetMachines(id) one entry with action reset.
C25_RevokeAndResetLogged ==
    [][\A id \in Ids(licenses) :
          /\ ( /\ DeleteRevoke("valid", id, "none")
               /\ res'.status = 200 )
             => /\ Len(logs') = Len(logs) + 1
                /\ logs'[Len(logs')].license_id = id
                /\ logs'[Len(logs')].action = "revoke"
          /\ ( /\ PostResetMachines("valid", id, "none")
               /\ res'.status = 200 )
             => /\ Len(logs') = Len(logs) + 1
                /\ logs'[Len(logs')].license_id = id
                /\ logs'[Len(logs')].action = "reset"]_vars

(***************************************************************************)
(* A caller that retries POST /validate with the same key and machineId    *)
(* until it is answered valid:true.  Any SQL statement of an attempt may   *)
(* throw.  The store before the first attempt is one the routes reach: it  *)
(* is built with the service functions.  The caller remembers that store   *)
(* in the history field before.  The clock reads 1 throughout (the         *)
(* attempts fall in one unit of time).                                     *)
(***************************************************************************)
MaxRetryFailures == 2

Retriers == {1}

RetryKey == generateLicenseKey([n \in 1..16 |-> 0])

\* [licenses, logs] after createLicense at time 0, and then a validation,
\* a revocation or an update of expiresAt to a date that has passed.
RetryStores ==
    LET created == insertLicense(<<>>, RetryKey, Null, "monthly", 1,
                                 calculateExpiration("monthly", 0), 0)
        validated == validateLicense(created, <<>>, RetryKey, <<"m", "1">>,
                                     "none", 0)
    IN  {[licenses |-> <<>>, logs |-> <<>>],
         [licenses |-> created, logs |-> <<>>],
         [licenses |-> validated.licenses, logs |-> validated.logs],
         [licenses |-> revokeLicense(validated.licenses, 1),
          logs |-> validated.logs],
         [licenses |-> updateLicense(created, 1,
                          [NoData EXCEPT !.expiresAt = Some(toISOString(0))],
                          "none").licenses,
          logs |-> <<>>]}

RetryKeys == {RetryKey, <<"R", "A", "T", "O", "-", "X">>}

RetryClient(key, machineId, store) ==
    [pc |-> "retrying", key |-> key, machineId |-> machineId, before |-> store]

InitRetry ==
    /\ \E store \in RetryStores, key \in RetryKeys, machineId \in ClientMachineIds :
          /\ licenses = store.licenses
          /\ logs = store.logs
          /\ inflight = [c \in Clients |->
                            IF c \in Retriers
                            THEN RetryClient(key, machineId, store)
                            ELSE IdleClient]
    /\ now = 1
    /\ res = Response("none", <<>>, <<>>, 0, 0, ErrorBody(""), <<>>)
    /\ revoked = {}
    /\ requests = 0
    /\ failures = 0

\* One attempt; the caller stops at the first answer with valid:true.
RetryValidate(c, fault) ==
    /\ inflight[c].pc = "retrying"
    /\ fault # "none" => failures < MaxRetryFailures
    /\ PostValidate(inflight[c].key, inflight[c].machineId, fault)
    /\ inflight' = [inflight EXCEPT
                       ![c].pc = IF res'.status = 200 /\ res'.body.valid
                                 THEN "done" ELSE "retrying"]
    /\ requests' = requests + 1
    /\ failures' = IF fault # "none" THEN failures + 1 ELSE failures

NextRetry ==
    \E c \in Retriers :
       \E fault \in ValidateFaults(licenses, logs, inflight[c].key,
                                   inflight[c].machineId, now) :
          RetryValidate(c, fault)

SpecRetry == InitRetry /\ [][NextRetry]_vars

\* The store that one validation without a failing statement makes of the
\* store the caller started from.
uninterrupted(c) ==
    validateLicense(inflight[c].before.licenses, inflight[c].before.logs,
                    inflight[c].key, inflight[c].machineId, "none", now)

\* C26: once a caller that retried validate(key, machineId) after every
\* aborted attempt has been answered valid:true, the licenses and the
\* activation log are what one validation without a failure makes of the
\* store it started from (in particular the answered attempt has done all
\* its writes, and exactly one validate entry has been added).
C26_RetrySafe ==
    \A c \in Retriers :
        inflight[c].pc = "done"
        => /\ licenses = uninterrupted(c).licenses
           /\ logs = uninterrupted(c).logs

\* C27: when no statement fails, every validate with a key that begins with
\* RATO- and a machineId is answered valid:true, whether or not the key was
\* stored and whatever the status, expiry and bound machines of its license;
\* a key that was not stored gets a lifetime license, and afterwards the
\* license is active, its expiresAt is later than now and the machine is in
\* machinesUsed.
C27_PermissiveValidate ==
    [][\A key \in AdminKeys, machineId \in AdminMachineIds :
          ( /\ startsWith(key, RATO_)
            /\ PostValidate(key, machineId, "none") )
          => /\ res'.status = 200
             /\ res'.body.valid
             /\ LET old == getByKey(licenses, key)
                    row == getByKey(licenses', key)
                IN  /\ row.id # 0
                    /\ old.id = 0 => row.plan = "lifetime"
                    /\ row.status = "active"
                    /\ isValidDate(row.expires_at)
                    /\ NewDate(row.expires_at) > now
                    /\ includes(machinesUsed(row), machineId)]_vars

(***************************************************************************)
(* The validationSignature on its own.  Two tuples (key, machineId,        *)
(* expiresAt) are chosen in the initial state.  createOfflineToken signs   *)
(* the first; the signature is put into an object that carries the second, *)
(* the object is encrypted with encryptLicenseData and the token is given  *)
(* to verifyOfflineToken.                                                  *)
(***************************************************************************)
SignedKeys ==
    {<<"R", "A", "T", "O", "-", "A">>,
     <<"R", "A", "T", "O", "-", "A", "B">>,
     <<"R", "A", "T", "O", "-", "X">>}

SignedMachineIds == {<<"B", "C">>, <<"C">>, <<"m", "1">>}

SignedTuples ==
    [key : SignedKeys, machineId : SignedMachineIds,
     expires_at : {toISOString(3), toISOString(4)}]

\* The license row createOfflineToken is given for a tuple.
licenseOf(tuple) ==
    [key |-> tuple.key, expires_at |-> tuple.expires_at, plan |-> "lifetime"]

InitSignature ==
    /\ licenses = <<>>
    /\ logs = <<>>
    /\ now = 0
    /\ \E first \in SignedTuples, second \in SignedTuples :
          res = Response("tuples", <<>>, <<>>, 0, 0,
                         [first |-> first, second |-> second], <<>>)
    /\ revoked = {}
    /\ requests = 0
    /\ failures = 0
    /\ inflight = [c \in Clients |-> IdleClient]

\* crypto.js:376-378 and 398-399: the text given to hmac.update
signatureInput(data) == plus3(data.key, data.machineId, data.expiresAt)

TransplantSignature ==
    /\ res.op = "tuples"
    /\ \E iv \in ClientIvDraws :
          LET signed == offlineTokenData(licenseOf(res.body.first),
                                         res.body.first.machineId, now)
              other == offlineTokenData(licenseOf(res.body.second),
                                        res.body.second.machineId, now)
              carried == [other EXCEPT !.validationSignature =
                                          signed.validationSignature]
          IN  res' = Response("verifyOfflineToken", <<>>, <<>>, 0, 0,
                              [first |-> res.body.first,
                               second |-> res.body.second,
                               signedInput |-> signatureInput(signed),
                               carriedInput |-> signatureInput(carried),
                               result |-> verifyOfflineToken(
                                             encryptLicenseData(carried, iv),
                                             now)],
                              <<>>)
    /\ UNCHANGED <<licenses, logs, now, revoked, requests, failures, inflight>>

NextSignature == TransplantSignature

SpecSignature == InitSignature /\ [][NextSignature]_vars

\* C28: when the two tuples differ, the texts that are signed for them
\* differ, and verifyOfflineToken does not accept the signature of the
\* first in a payload that carries the second.
C28_SignatureBindsTuple ==
    ( /\ res.op = "verifyOfflineToken"
      /\ res.body.first # res.body.second )
    => /\ res.body.signedInput # res.body.carriedInput
       /\ ~( /\ res.body.result.kind = "return"
             /\ res.body.result.value.valid )

\* C29: when a validate is answered valid:true, the key, plan, expiresAt and
\* maxMachines of the answer are those of the stored license at that moment,
\* its machinesUsed is the number of machines stored for the license, and
\* the object inside the offline token carries the stored key, plan and
\* expiresAt and the machineId of the request.
C29_ResultReflectsStore ==
    [][\A c \in TokenHolders, iv \in ClientIvDraws :
          ( /\ FinishValidate(c, iv)
            /\ inflight'[c].ret.valid )
          => LET row == getByKey(licenses', inflight[c].key)
                 view == inflight'[c].ret.license
                 data == decryptLicenseData(inflight'[c].token)
             IN  /\ row.id # 0
                 /\ view.key = row.key
                 /\ view.plan = row.plan
                 /\ view.expiresAt = row.expires_at
                 /\ view.maxMachines = row.max_machines
                 /\ view.machinesUsed = Len(machinesUsed(row))
                 /\ ~data.null
                 /\ data.key = Some(row.key)
                 /\ data.plan = Some(planChars(row.plan))
                 /\ data.expiresAt = Some(isoChars(row.expires_at))
                 /\ data.machineId = Some(inflight[c].machineId)]_vars

\* C29 witness: a validate of a monthly license that had expired has been
\* answered valid:true with the extended expiry, and the token is held.
C29_Witness ==
    \E c \in TokenHolders :
        /\ inflight[c].pc = "done"
        /\ inflight[c].ret.valid
        /\ inflight[c].ret.license.plan = "monthly"
        /\ NewDate(inflight[c].ret.license.expiresAt) > 1000
        /\ inflight[c].ret.license.machinesUsed = 1
        /\ inflight[c].token # <<>>

\* C30: after every step no two stored licenses have the same key, no
\* license has gone, and every license has the key it had before the step.
C30_KeyUniqueImmutable ==
    [][/\ \A i, j \in 1..Len(licenses') :
             i # j => licenses'[i].key # licenses'[j].key
       /\ Len(licenses') >= Len(licenses)
       /\ \A i \in 1..Len(licenses) :
             /\ licenses'[i].id = licenses[i].id
             /\ licenses'[i].key = licenses[i].key]_vars

\* C30 witness: createLicense generated the key of a stored license and the
\* insert was refused; the stored license has since been left alone.
C30_Witness ==
    /\ res.op = "create"
    /\ res.status = 500
    /\ res.stmts = <<"insert">>
    /\ Len(licenses) >= 1
    /\ \E i \in 1..Len(licenses) : licenses[i].key \in GeneratedKeys

====
